---- MODULE Spec2Model ----
(***************************************************************************)
(* A model of the UDP binding of msquic (src/core/binding.c): the          *)
(* stateless-operation table, the receive path that splits a datagram      *)
(* chain by destination connection ID, and the creation of connections.    *)
(***************************************************************************)
EXTENDS Integers, Sequences, FiniteSets, TLC

(***************************************************************************)
(* Bounds of the model and constants of the program.                       *)
(***************************************************************************)

\* How many times the millisecond clock advances in one behaviour.
MaxTicks == 2

\* How many stateless contexts the worker's pool can hand out in one behaviour.
MaxCtx == 3

\* The limit of tracked stateless operations per binding.  The program's value
\* is set in quicdef.h, outside src/; the model runs with a small one, and
\* with one more where the order of three tracked operations is looked at.
StatelessOperationsLimit == 2

StatelessOperationsLimitOrdered == 3

\* The age at which a tracked stateless operation expires (quicdef.h).
QUIC_STATELESS_OPERATION_EXPIRATION_MS == 100

\* QuicTimeMs32 returns a uint32_t.  A time is kept as two 16-bit halves,
\* [hi, lo], standing for hi * 2^16 + lo, and the arithmetic on it is modulo
\* 2^32.
HalfWord == 65536

\* The clock advances by this many milliseconds at a time.
TickMs == 50

\* How many datagrams the chain of one receive call holds at most.
MaxChain == 3

\* How many allocations and worker assignments fail in one behaviour.
MaxFaults == 1

\* The same for each of two receive calls that run in parallel.
MaxPeerChain == 1

\* The shortest destination connection ID a shared binding accepts (quicdef.h).
QUIC_MIN_INITIAL_CONNECTION_ID_LENGTH == 8

\* A short-header datagram must be longer than this to be answered with a
\* stateless reset (quicdef.h).
QUIC_MIN_STATELESS_RESET_PACKET_LENGTH == 39

\* RetryMemoryLimit * QuicTotalMemory / UINT16_MAX, counted in connections.
CurrentMemoryLimit == 2

\* The handshake memory of one connection, as the unit of the counter.
QUIC_CONN_HANDSHAKE_MEMORY_USAGE == 1

NULL == 0

Threads == {"t1", "t2"}

Remotes == {"r1", "r2", "r3"}

VARIABLES
    clock,                \* the value QuicTimeMs32 returns now
    ticks,                \* how often the clock advanced
    ctx,                  \* the stateless contexts allocated so far
    StatelessOperList,    \* Binding->StatelessOperList, head first
    StatelessOperTable,   \* Binding->StatelessOperTable: hash -> bucket
    StatelessOperCount,   \* Binding->StatelessOperCount
    spc,                  \* per thread: where it is in QueueStatelessOperation
    sTimeMs,              \* per thread: the local TimeMs of create
    Exclusive,            \* Binding->Exclusive
    Listeners,            \* Binding->Listeners
    Lookup,               \* Binding->Lookup: destination CID -> connection
    conn,                 \* the connections that exist
    CurrentHandshakeMemoryUsage,  \* MsQuicLib.CurrentHandshakeMemoryUsage
    HandshakeConnections, \* Binding->HandshakeConnections
    NullDeref,            \* a null pointer was dereferenced
    dg,                   \* the datagrams the datapath indicated: id -> content
    NextPtr,              \* id -> Datagram->Next
    rpc,                  \* per thread: where it is in QuicBindingReceive
    local,                \* per thread: the locals of QuicBindingReceive
    faults,               \* how many faults were injected so far
    Returned,             \* the calls of QuicDataPathBindingReturnRecvDatagrams
    DeliverCalls,         \* the calls of QuicBindingDeliverPackets that returned
    Sent,                 \* the calls of QuicBindingSendFromTo
    SendContexts,         \* per operation processed: what became of its send context
    RandomReservedVersion,  \* Binding->RandomReservedVersion
    lpc,                  \* per thread: where it is in QuicBindingRegisterListener
    Registered,           \* the listeners inserted so far, in that order
    MaximizePartitioning, \* QuicLookupMaximizePartitioning has succeeded
    Rundown,              \* listener -> its rundown: active, references held
    Matches,              \* the calls of QuicBindingGetListener that returned
    MaxOperations,        \* the limit of stateless operations of this build
    FaultLimit,           \* how many faults can be injected in all
    lockProg,             \* per thread: the lock and datapath events its call has still to make
    held,                 \* per thread: the locks it holds, in the order it took them
    lockCalls,            \* how many calls were begun
    Uninitialized         \* QuicBindingUninitialize has run

statelessVars ==
    << clock, ticks, ctx, StatelessOperList, StatelessOperTable,
       StatelessOperCount, spc, sTimeMs >>

receiveVars ==
    << Exclusive, Listeners, Lookup, conn, CurrentHandshakeMemoryUsage,
       HandshakeConnections, NullDeref, dg, NextPtr, rpc, local, faults,
       Returned, DeliverCalls >>

workerVars == << Sent, SendContexts, RandomReservedVersion >>

listenerVars == << lpc, Registered, MaximizePartitioning >>

matchVars == << Rundown, Matches >>

lockVars == << lockProg, held, lockCalls >>

buildVars == << MaxOperations, FaultLimit, Uninitialized, lockVars >>

vars ==
    << statelessVars, receiveVars, workerVars, listenerVars, matchVars,
       buildVars >>

QUIC_MAX_BINDING_STATELESS_OPERATIONS == MaxOperations

\* No call is under way and no lock is held.
NoLockHeld ==
    /\ lockProg = [t \in Threads |-> << >>]
    /\ held = [t \in Threads |-> << >>]
    /\ lockCalls = 0

(***************************************************************************)
(* Helpers on sequences.                                                   *)
(***************************************************************************)

SeqToSet(s) == { s[i] : i \in 1..Len(s) }

RemoveFromSeq(s, x) == SelectSeq(s, LAMBDA y : y # x)

(***************************************************************************)
(* Time and hashing.                                                       *)
(***************************************************************************)

\* T + n in uint32_t arithmetic, for n < 2^16.
TimeAdd32(T, n) ==
    [ hi |-> (T.hi + ((T.lo + n) \div HalfWord)) % HalfWord,
      lo |-> (T.lo + n) % HalfWord ]

\* The elapsed time from T1 to T2 in uint32_t arithmetic: T2 - T1 mod 2^32.
QuicTimeDiff32(T1, T2) ==
    [ hi |-> (T2.hi - T1.hi - (IF T2.lo < T1.lo THEN 1 ELSE 0) + 2 * HalfWord)
                 % HalfWord,
      lo |-> (T2.lo - T1.lo + HalfWord) % HalfWord ]

\* d < n for a uint32_t d and n <= 2^16.
TimeLess32(d, n) == d.hi = 0 /\ d.lo < n

\* The first value of the clock: the uint32_t wraps at the first tick.
FirstTime == [hi |-> HalfWord - 1, lo |-> HalfWord - TickMs]

\* The hash of a remote address: r1 and r2 share a bucket.
QuicAddrHash(r) == IF r = "r3" THEN 1 ELSE 0

HashBuckets == {0, 1}

QuicAddrCompare(a, b) == a = b

(***************************************************************************)
(* The tracking structures of the binding as one value, so that the        *)
(* operations on them are functions.                                       *)
(***************************************************************************)

Tracking ==
    [ ctx   |-> ctx,
      list  |-> StatelessOperList,
      table |-> StatelessOperTable,
      count |-> StatelessOperCount ]

TableEntries(table) == UNION { SeqToSet(table[h]) : h \in HashBuckets }

\* QuicPoolFree of a context: its memory is gone, and what is kept of it is
\* how often it was freed, where the release call on it stands and what
\* that call did.
PoolFree(cs, c) ==
    [cs EXCEPT ![c] = [ RemoteAddress  |-> "r1",
                        Datagram       |-> NULL,
                        CreationTimeMs |-> FirstTime,
                        HasBindingRef  |-> FALSE,
                        IsProcessed    |-> TRUE,
                        IsExpired      |-> TRUE,
                        FreeCount      |-> cs[c].FreeCount + 1,
                        RelPc          |-> cs[c].RelPc,
                        FreeCtx        |-> cs[c].FreeCtx,
                        OperType       |-> "NONE",
                        UseAfterFree   |-> cs[c].UseAfterFree,
                        BindingReleasedBy |-> cs[c].BindingReleasedBy ]]

\* Whether the ageing loop stops at the context that heads the list.
AgeOutStops(old, TimeMs) ==
    TimeLess32(QuicTimeDiff32(old.CreationTimeMs, TimeMs),
               QUIC_STATELESS_OPERATION_EXPIRATION_MS)

\* An ageing step that unlinks the context without marking it expired.
AgeOutOneUnmarked(st, c) ==
    LET h == QuicAddrHash(st.ctx[c].RemoteAddress)
    IN  [ ctx   |-> IF st.ctx[c].IsProcessed THEN PoolFree(st.ctx, c) ELSE st.ctx,
          list  |-> RemoveFromSeq(st.list, c),
          table |-> [st.table EXCEPT ![h] = RemoveFromSeq(@, c)],
          count |-> st.count - 1 ]

\* What the ageing loop does to one expired context: mark, unlink, count.
AgeOutOne(st, c) ==
    LET marked == [st.ctx EXCEPT ![c].IsExpired = TRUE]
        h == QuicAddrHash(st.ctx[c].RemoteAddress)
    IN  [ ctx   |-> IF marked[c].IsProcessed THEN PoolFree(marked, c) ELSE marked,
          list  |-> RemoveFromSeq(st.list, c),
          table |-> [st.table EXCEPT ![h] = RemoveFromSeq(@, c)],
          count |-> st.count - 1 ]

\* The loop "Age out all expired operation contexts".
RECURSIVE AgeOut(_, _)
AgeOut(st, TimeMs) ==
    IF st.list = << >> THEN st
    ELSE IF AgeOutStops(st.ctx[Head(st.list)], TimeMs) THEN st
    ELSE AgeOut(AgeOutOne(st, Head(st.list)), TimeMs)

\* A saturation test that lets one more context in.
MaxOperationsExceeded(count) ==
    count > QUIC_MAX_BINDING_STATELESS_OPERATIONS

\* The saturation test after ageing.
MaxOperationsReached(count) ==
    count >= QUIC_MAX_BINDING_STATELESS_OPERATIONS

\* A walk that ignores the hash and always looks into bucket 0.
AlreadyInBucketZero(st, RemoteAddress) ==
    \E i \in 1..Len(st.table[0]) :
        QuicAddrCompare(st.ctx[st.table[0][i]].RemoteAddress, RemoteAddress)

\* The walk over the hash bucket for a context of the same remote address.
AlreadyInTable(st, RemoteAddress) ==
    \E i \in 1..Len(st.table[QuicAddrHash(RemoteAddress)]) :
        QuicAddrCompare(
            st.ctx[st.table[QuicAddrHash(RemoteAddress)][i]].RemoteAddress,
            RemoteAddress)

\* A mutation of NewStatelessCtx: the context is created with HasBindingRef
\* set.
StatelessCtxHoldingBindingRef(TimeMs, RemoteAddress, Datagram) ==
    [ RemoteAddress  |-> RemoteAddress,
      Datagram       |-> Datagram,
      CreationTimeMs |-> TimeMs,
      HasBindingRef  |-> TRUE,
      IsProcessed    |-> FALSE,
      IsExpired      |-> FALSE,
      FreeCount      |-> 0,
      RelPc          |-> "pending",
      FreeCtx        |-> FALSE,
      OperType       |-> "NONE",
      UseAfterFree   |-> FALSE,
      BindingReleasedBy |-> "none" ]

\* A context as create fills it.  RelPc and FreeCtx are the position and the
\* local of the release call on it; FreeCount counts its QuicPoolFree calls;
\* OperType is the type of the operation that carries it; UseAfterFree says
\* that the release call read the context after it was freed, and
\* BindingReleasedBy who called QuicLibraryReleaseBinding in it.
NewStatelessCtx(TimeMs, RemoteAddress, Datagram) ==
    [ RemoteAddress  |-> RemoteAddress,
      Datagram       |-> Datagram,
      CreationTimeMs |-> TimeMs,
      HasBindingRef  |-> FALSE,
      IsProcessed    |-> FALSE,
      IsExpired      |-> FALSE,
      FreeCount      |-> 0,
      RelPc          |-> "pending",
      FreeCtx        |-> FALSE,
      OperType       |-> "NONE",
      UseAfterFree   |-> FALSE,
      BindingReleasedBy |-> "none" ]

\* A mutation of InsertStatelessCtx: the context is not put into the table.
InsertStatelessCtxInListOnly(st, TimeMs, RemoteAddress, Datagram) ==
    [ ctx   |-> Append(st.ctx, NewStatelessCtx(TimeMs, RemoteAddress, Datagram)),
      list  |-> Append(st.list, Len(st.ctx) + 1),
      table |-> st.table,
      count |-> st.count + 1 ]

\* The insertion of a new context into table and list.
InsertStatelessCtx(st, TimeMs, RemoteAddress, Datagram) ==
    LET c == Len(st.ctx) + 1
        h == QuicAddrHash(RemoteAddress)
    IN  [ ctx   |-> Append(st.ctx, NewStatelessCtx(TimeMs, RemoteAddress, Datagram)),
          list  |-> Append(st.list, c),
          table |-> [st.table EXCEPT ![h] = Append(@, c)],
          count |-> st.count + 1 ]

\* QuicBindingCreateStatelessOperation between lock and unlock.  poolOk says
\* whether QuicPoolAlloc succeeds.  The result holds the structures, the
\* context returned (NULL for none) and the drop reason logged.
QuicBindingCreateStatelessOperation(st, TimeMs, RemoteAddress, Datagram, poolOk) ==
    LET aged == AgeOut(st, TimeMs)
    IN  IF MaxOperationsReached(aged.count)
        THEN [ st |-> aged, result |-> NULL,
               drop |-> "Max binding operations reached" ]
        ELSE IF AlreadyInTable(aged, RemoteAddress)
        THEN [ st |-> aged, result |-> NULL,
               drop |-> "Already in stateless oper table" ]
        ELSE IF ~poolOk \/ Len(aged.ctx) >= MaxCtx
        THEN [ st |-> aged, result |-> NULL,
               drop |-> "Alloc failure for stateless oper ctx" ]
        ELSE [ st |-> InsertStatelessCtx(aged, TimeMs, RemoteAddress, Datagram),
               result |-> Len(aged.ctx) + 1,
               drop |-> "" ]

(***************************************************************************)
(* Datagrams.                                                              *)
(***************************************************************************)

\* Destination connection IDs as byte strings.  CidY differs from CidX in
\* its last byte, CidX9 is CidX with one more byte, CidSmall is shorter
\* than the minimum of a shared binding.
CidX == << 1, 1, 1, 1, 1, 1, 1, 1 >>

CidY == << 1, 1, 1, 1, 1, 1, 1, 2 >>

CidX9 == << 1, 1, 1, 1, 1, 1, 1, 1, 1 >>

CidSmall == << 1, 1, 1, 1 >>

CidEmpty == << >>

\* The source connection ID of the client.
CidClient == << 177, 178 >>

\* Connection IDs the server can draw for a Retry.
CidS1 == << 9, 9, 9, 9, 9, 9, 9, 1 >>

CidS2 == << 9, 9, 9, 9, 9, 9, 9, 2 >>

ServerCIDs == { CidS1, CidS2 }

\* The length of the connection IDs the server chooses, and of an IV.
MSQUIC_CONNECTION_ID_LENGTH == 8

QUIC_IV_LENGTH == 12

\* sizeof(QUIC_RETRY_TOKEN_CONTENTS), scaled, and sizeof(Token.OrigConnId).
SizeofRetryTokenContents == 4

SizeofOrigConnId == 20

\* The IV of a retry token: the first MSQUIC_CONNECTION_ID_LENGTH bytes found
\* at the connection ID, then zeroes.
RetryIv(cid) ==
    [ i \in 1..QUIC_IV_LENGTH |->
        IF i <= MSQUIC_CONNECTION_ID_LENGTH /\ i <= Len(cid) THEN cid[i] ELSE 0 ]

\* A retry token on the wire: its length, the key and the IV its contents
\* are encrypted under, and the contents.
RetryToken(length, key, iv, remote, origLength, orig) ==
    [ Length           |-> length,
      Key              |-> key,
      Iv               |-> iv,
      RemoteAddress    |-> remote,
      OrigConnIdLength |-> origLength,
      OrigConnId       |-> orig ]

NoToken == RetryToken(0, "none", RetryIv(<< >>), "r1", 0, << >>)

\* QuicRetryTokenDecrypt for a packet with destination CID cid: the
\* authenticated decryption under MsQuicLib.StatelessRetryKey succeeds if the
\* token was encrypted under that key and under the IV of this CID.
QuicRetryTokenDecrypt(cid, token) ==
    token.Key = "StatelessRetryKey" /\ token.Iv = RetryIv(cid)

\* What the binding reads of a received datagram: whether
\* QuicPacketValidateInvariant accepts it, the header form, the destination
\* CID, the version and type of a long header, whether
\* QuicPacketValidateLongHeaderD23 accepts it and the token it finds, the
\* length of the buffer and the remote address of the tuple.  A long header
\* carries the source CID of the client, a short header its key phase.
Packet(valid, long, cid, version, type, length, remote) ==
    [ ValidInvariant |-> valid,
      IsLongHeader   |-> long,
      DestCID        |-> cid,
      SourceCID      |-> IF long THEN CidClient ELSE << >>,
      KeyPhase       |-> 0,
      ValidToken     |-> FALSE,
      Version        |-> version,
      Type           |-> type,
      ValidLongHeader |-> TRUE,
      Token          |-> NoToken,
      BufferLength   |-> length,
      RemoteAddress  |-> remote ]

Malformed == Packet(FALSE, FALSE, CidX, "NONE", "SHORT", 60, "r1")

ShortX == Packet(TRUE, FALSE, CidX, "NONE", "SHORT", 60, "r1")

ShortY == Packet(TRUE, FALSE, CidY, "NONE", "SHORT", 60, "r2")

ShortX9Tiny == Packet(TRUE, FALSE, CidX9, "NONE", "SHORT", 39, "r3")

ShortSmallCid == Packet(TRUE, FALSE, CidSmall, "NONE", "SHORT", 60, "r1")

ShortEmpty == Packet(TRUE, FALSE, CidEmpty, "NONE", "SHORT", 60, "r1")

InitialX == Packet(TRUE, TRUE, CidX, "DRAFT_23", "INITIAL", 1200, "r1")

InitialY == Packet(TRUE, TRUE, CidY, "DRAFT_23", "INITIAL", 1200, "r2")

InitialEmpty == Packet(TRUE, TRUE, CidEmpty, "DRAFT_23", "INITIAL", 1200, "r1")

ZeroRttX == Packet(TRUE, TRUE, CidX, "DRAFT_23", "0_RTT_PROTECTED", 1200, "r1")

UnknownVersionX == Packet(TRUE, TRUE, CidX, "UNKNOWN", "INITIAL", 1200, "r3")

\* The datagrams of a receive call are drawn from these.
Packets ==
    { Malformed, ShortX, ShortY, ShortX9Tiny, ShortSmallCid, ShortEmpty,
      InitialX, InitialY, InitialEmpty, ZeroRttX, UnknownVersionX }

\* The datagrams of two receive calls that run in parallel are drawn from
\* these.
PeerPackets == { InitialX, InitialY, ShortX }

CIDs == { p.DestCID : p \in Packets } \cup ServerCIDs

\* The versions the library speaks, in the order it advertises them.
QuicSupportedVersionList == << "DRAFT_23", "MS_1" >>

QuicIsVersionSupported(Version) ==
    \E i \in 1..Len(QuicSupportedVersionList) :
        QuicSupportedVersionList[i] = Version

\* A long header that is not 0-RTT protected.
QuicPacketIsHandshake(p) == p.IsLongHeader /\ p.Type # "0_RTT_PROTECTED"

\* Only an initial packet may create a connection.
QuicPacketCanCreateNewConnection(p) == p.Type = "INITIAL"

(***************************************************************************)
(* The locals of QuicBindingReceive.  A QUIC_RECV_DATAGRAM** is a slot:    *)
(* the address of the local ReleaseChain, of the local ConnectionChain, or *)
(* of the Next field of a datagram.                                        *)
(***************************************************************************)

SlotReleaseChain == [ at |-> "ReleaseChain", d |-> NULL ]

SlotConnectionChain == [ at |-> "ConnectionChain", d |-> NULL ]

SlotNext(d) == [ at |-> "Next", d |-> d ]

\* The locals at the entry of QuicBindingReceive.  Datagram is the loop
\* variable, Detached counts the datagrams taken off the input chain.
InitLocal ==
    [ ReleaseChain            |-> NULL,
      ReleaseChainTail        |-> SlotReleaseChain,
      ConnectionChain         |-> NULL,
      ConnectionChainTail     |-> SlotConnectionChain,
      ConnectionChainDataTail |-> SlotConnectionChain,
      ConnectionChainLength   |-> 0,
      Datagram                |-> NULL,
      Detached                |-> 0 ]

(***************************************************************************)
(* Listeners and the values QuicBindingInitialize draws.                   *)
(***************************************************************************)

\* QUIC_ADDRESS_FAMILY, with the values of the platform header.
AF_UNSPEC == 0

AF_INET == 2

AF_INET6 == 23

\* ALPN identifiers as byte strings: "h3", "h2" and "h3-23".
AlpnH3 == << 104, 51 >>

AlpnH2 == << 104, 50 >>

AlpnH3Draft == << 104, 51, 45, 50, 51 >>

\* What the binding reads of a listener: the family and the IP of its local
\* address, the wildcard flag and the ALPN of its session.  Id tells the
\* listener objects apart.
Listener(id, family, wildcard, ip, alpn) ==
    [ Id           |-> id,
      LocalAddress |-> [ Family |-> family, Ip |-> ip ],
      WildCard     |-> wildcard,
      Alpn         |-> alpn,
      AlpnLength   |-> Len(alpn) ]

\* The listeners of the model.  The first three are registered in this order
\* in the ordering scenario; the fourth has the key of the third.
ListenerObjects ==
    { Listener(1, AF_INET, TRUE, "0.0.0.0", AlpnH3),
      Listener(2, AF_INET6, FALSE, "2001:db8::1", AlpnH3),
      Listener(3, AF_INET, FALSE, "10.0.0.1", AlpnH3),
      Listener(4, AF_INET, FALSE, "10.0.0.1", AlpnH3),
      Listener(5, AF_UNSPEC, TRUE, "", AlpnH3),
      Listener(6, AF_INET, FALSE, "10.0.0.2", AlpnH2),
      Listener(7, AF_INET, TRUE, "0.0.0.0", AlpnH3Draft) }

ListenerOf(id) == CHOOSE l \in ListenerObjects : l.Id = id

\* The greatest Id of a listener.
MaxListenerId == 7

\* A binding with one listener registered.
OneListener == << ListenerOf(1) >>

QuicAddrGetFamily(Addr) == Addr.Family

QuicAddrCompareIp(a, b) == a.Ip = b.Ip

\* The locals of a thread that is not in QuicBindingRegisterListener.
\* AddNewListener keeps the value the last call returned.
IdleRegister ==
    [ pc             |-> "idle",
      NewListener    |-> NULL,
      AddNewListener |-> FALSE,
      MaximizeLookup |-> FALSE ]

\* A 32-bit version as its four bytes.  QuicBindingInitialize draws four
\* random bytes and forces the reserved pattern 0x?a?a?a?a on them.
ReservedVersionOf(random) ==
    [ i \in 1..4 |-> (random[i] \div 16) * 16 + 10 ]

\* The random word QuicBindingInitialize draws where the responses of the
\* binding are looked at; elsewhere it draws zero.
RandomWords == { << 255, 18, 52, 86 >> }

(***************************************************************************)
(* The stateless-operation table under concurrent calls.                   *)
(***************************************************************************)

InitStatelessOf(limit) ==
    /\ MaxOperations = limit
    /\ FaultLimit = MaxFaults
    /\ Uninitialized = FALSE
    /\ NoLockHeld
    /\ clock = FirstTime
    /\ ticks = 0
    /\ ctx = << >>
    /\ StatelessOperList = << >>
    /\ StatelessOperTable = [h \in HashBuckets |-> << >>]
    /\ StatelessOperCount = 0
    /\ spc = [t \in Threads |-> "idle"]
    /\ sTimeMs = [t \in Threads |-> FirstTime]
    /\ Exclusive = FALSE
    /\ Listeners = << >>
    /\ RandomReservedVersion = ReservedVersionOf(<< 0, 0, 0, 0 >>)
    /\ Lookup = [c \in CIDs |-> NULL]
    /\ conn = << >>
    /\ CurrentHandshakeMemoryUsage = 0
    /\ HandshakeConnections = 0
    /\ NullDeref = FALSE
    /\ dg = << >>
    /\ NextPtr = << >>
    /\ rpc = [t \in Threads |-> "idle"]
    /\ local = [t \in Threads |-> InitLocal]
    /\ faults = 0
    /\ Returned = << >>
    /\ DeliverCalls = << >>
    /\ Sent = << >>
    /\ SendContexts = << >>
    /\ lpc = [t \in Threads |-> IdleRegister]
    /\ Registered = << >>
    /\ MaximizePartitioning = FALSE
    /\ Rundown = [ id \in 1..MaxListenerId |-> [ Active |-> TRUE, Refs |-> 0 ] ]
    /\ Matches = << >>

InitStateless == InitStatelessOf(StatelessOperationsLimit)

\* Time passes.
Tick ==
    /\ ticks < MaxTicks
    /\ clock' = TimeAdd32(clock, TickMs)
    /\ ticks' = ticks + 1
    /\ UNCHANGED << ctx, StatelessOperList, StatelessOperTable,
                    StatelessOperCount, spc, sTimeMs, receiveVars, workerVars,
                    listenerVars, matchVars, buildVars >>

\* QuicBindingQueueStatelessOperation up to the lock of create: the worker
\* is not overloaded, and create samples TimeMs before it takes the lock.
\* (With an overloaded worker the call returns FALSE and has changed nothing.)
QueueStatelessOperationBegin(t) ==
    /\ spc[t] = "idle"
    /\ spc' = [spc EXCEPT ![t] = "create"]
    /\ sTimeMs' = [sTimeMs EXCEPT ![t] = clock]
    /\ UNCHANGED << clock, ticks, ctx, StatelessOperList, StatelessOperTable,
                    StatelessOperCount, receiveVars, workerVars,
                    listenerVars, matchVars, buildVars >>

\* The locked part of create for a datagram from remote r, then the
\* allocation of the operation.  The context is queued on the worker with its
\* operation, which will call release after processing it, or, when
\* QuicOperationAlloc fails, it is released by this thread: in both cases a
\* release call on it is pending.
QueueStatelessOperationCreate(t) ==
    /\ spc[t] = "create"
    /\ \E r \in Remotes :
        LET res == QuicBindingCreateStatelessOperation(
                       Tracking, sTimeMs[t], r, 1, TRUE)
        IN  /\ ctx' = res.st.ctx
            /\ StatelessOperList' = res.st.list
            /\ StatelessOperTable' = res.st.table
            /\ StatelessOperCount' = res.st.count
    /\ spc' = [spc EXCEPT ![t] = "idle"]
    /\ sTimeMs' = [sTimeMs EXCEPT ![t] = FirstTime]
    /\ UNCHANGED << clock, ticks, receiveVars, workerVars, listenerVars,
                    matchVars, buildVars >>

\* A mutation of ReleaseStatelessLocked: FreeCtx is set whether or not the
\* context has expired.
ReleaseStatelessLockedFreeing(cs, c) ==
    [cs EXCEPT ![c].Datagram = NULL,
               ![c].IsProcessed = TRUE,
               ![c].FreeCtx = TRUE,
               ![c].RelPc = "unlocked"]

\* QuicBindingReleaseStatelessOperation up to the release of the lock.
ReleaseStatelessLocked(cs, c) ==
    [cs EXCEPT ![c].Datagram = NULL,
               ![c].IsProcessed = TRUE,
               ![c].FreeCtx = cs[c].IsExpired,
               ![c].RelPc = "unlocked"]

\* QuicBindingReleaseStatelessOperation after the lock, run by the given
\* thread: HasBindingRef is read from the context, which gives the value
\* read, the reference on the binding is released if it is TRUE, and the
\* context is freed if it had expired.
ReleaseStatelessAfterLock(cs, c, by, read) ==
    LET done == [cs EXCEPT ![c].RelPc = "done",
                           ![c].UseAfterFree = cs[c].FreeCount > 0,
                           ![c].BindingReleasedBy =
                               IF read THEN by ELSE "none"]
    IN  IF cs[c].FreeCtx THEN PoolFree(done, c) ELSE done

\* The same for a context that no other thread can have freed.
ReleaseStatelessUnlocked(cs, c, by) ==
    ReleaseStatelessAfterLock(cs, c, by, cs[c].HasBindingRef)

\* QuicBindingReleaseStatelessOperation as a whole.
QuicBindingReleaseStatelessOperation(cs, c, by) ==
    ReleaseStatelessUnlocked(ReleaseStatelessLocked(cs, c), c, by)

\* The release call that is pending on context c runs.
ReleaseStatelessOperation(c) ==
    /\ c \in 1..Len(ctx)
    /\ ctx[c].RelPc = "pending"
    /\ ctx' = QuicBindingReleaseStatelessOperation(ctx, c, "worker")
    /\ UNCHANGED << clock, ticks, StatelessOperList, StatelessOperTable,
                    StatelessOperCount, spc, sTimeMs, receiveVars, workerVars,
                    listenerVars, matchVars, buildVars >>

NextStateless ==
    \/ Tick
    \/ \E t \in Threads : QueueStatelessOperationBegin(t)
    \/ \E t \in Threads : QueueStatelessOperationCreate(t)
    \/ \E c \in 1..MaxCtx : ReleaseStatelessOperation(c)

SpecStateless == InitStateless /\ [][NextStateless]_vars

(***************************************************************************)
(* Datagram chains in memory.                                              *)
(***************************************************************************)

\* The memory a receive call of thread t works on: its locals and the Next
\* fields of all datagrams.
Mem(t) == [ L |-> local[t], N |-> NextPtr ]

\* *slot
Deref(m, slot) ==
    CASE slot.at = "ReleaseChain"    -> m.L.ReleaseChain
      [] slot.at = "ConnectionChain" -> m.L.ConnectionChain
      [] slot.at = "Next"            -> m.N[slot.d]

\* *slot = v
Store(m, slot, v) ==
    CASE slot.at = "ReleaseChain"    -> [m EXCEPT !.L.ReleaseChain = v]
      [] slot.at = "ConnectionChain" -> [m EXCEPT !.L.ConnectionChain = v]
      [] slot.at = "Next"            -> [m EXCEPT !.N[slot.d] = v]

\* The datagrams from h along Next, at most fuel of them.
RECURSIVE WalkFrom(_, _, _)
WalkFrom(N, h, fuel) ==
    IF h = NULL \/ fuel = 0 THEN << >>
    ELSE << h >> \o WalkFrom(N, N[h], fuel - 1)

\* The chain that starts at h.  A chain that ran into a cycle comes out
\* longer than the number of datagrams.
Chain(N, h) == WalkFrom(N, h, Cardinality(DOMAIN N) + 1)

\* The n-th datagram of the input chain of thread t.
DatagramId(t, n) == IF t = "t1" THEN n ELSE MaxChain + 1 + n

\* "Remove the recv buffer from the chain": the loop variable becomes the
\* datagram d, which heads the input chain, and its Next is cleared.
Detach(m, d) ==
    [ L |-> [m.L EXCEPT !.Datagram = d, !.Detached = @ + 1],
      N |-> (d :> NULL) @@ m.N ]

\* The datagram goes to the end of the release chain.
ReleaseAppend(m, d) ==
    [Store(m, m.L.ReleaseChainTail, d) EXCEPT !.L.ReleaseChainTail = SlotNext(d)]

\* A comparison of connection IDs that looks at the lengths only.
CidLengthMismatch(a, b) == Len(a) # Len(b)

\* A comparison of connection IDs that finds every pair equal.
CidNeverMismatch(a, b) == FALSE

\* Packet->DestCIDLen != Chain->DestCIDLen || memcmp(...) != 0
CidMismatch(a, b) ==
    Len(a) # Len(b) \/ \E i \in 1..Len(a) : a[i] # b[i]

\* The packet does not match the current connection chain.
StartsNewChain(m, p) ==
    /\ ~Exclusive
    /\ m.L.ConnectionChain # NULL
    /\ CidMismatch(p.DestCID, dg[m.L.ConnectionChain].DestCID)

\* "Data packets go at the end of the chain."
InsertData(m, d) ==
    [Store(m, m.L.ConnectionChainDataTail, d)
        EXCEPT !.L.ConnectionChainDataTail = SlotNext(d)]

\* A handshake packet, no data packet in the chain yet.
InsertHandshakeAtEnd(m, d) ==
    [Store(m, m.L.ConnectionChainTail, d)
        EXCEPT !.L.ConnectionChainTail = SlotNext(d),
               !.L.ConnectionChainDataTail = SlotNext(d)]

\* An insertion before the data packets that leaves ConnectionChainTail
\* where it was.
InsertHandshakeTailKept(m, d) ==
    Store([m EXCEPT !.N[d] = Deref(m, m.L.ConnectionChainTail)],
          m.L.ConnectionChainTail, d)

\* A handshake packet goes before the data packets.
InsertHandshakeBeforeData(m, d) ==
    [Store([m EXCEPT !.N[d] = Deref(m, m.L.ConnectionChainTail)],
           m.L.ConnectionChainTail, d)
        EXCEPT !.L.ConnectionChainTail = SlotNext(d)]

\* "Insert the packet in the current chain, with handshake packets first."
InsertInChain(m, d, p) ==
    LET m1 == [m EXCEPT !.L.ConnectionChainLength = @ + 1]
    IN  IF ~QuicPacketIsHandshake(p) THEN InsertData(m1, d)
        ELSE IF Deref(m1, m1.L.ConnectionChainTail) = NULL
        THEN InsertHandshakeAtEnd(m1, d)
        ELSE InsertHandshakeBeforeData(m1, d)

\* The connection chain is empty again.
ResetConnectionChain(m) ==
    [m EXCEPT !.L.ConnectionChain = NULL,
              !.L.ConnectionChainTail = SlotConnectionChain,
              !.L.ConnectionChainDataTail = SlotConnectionChain,
              !.L.ConnectionChainLength = 0]

\* A release tail that is taken from the handshake tail of the chain.
TailOfHandshake(L) == L.ConnectionChainTail

\* Where the release chain ends after a chain that was not delivered inside
\* the loop was appended to it.
TailAfterFailedDeliver(L) == L.ConnectionChainDataTail

\* Where it ends after the last chain was not delivered.
TailAfterLastFailedDeliver(L) == L.ConnectionChainTail

\* A chain that was not delivered goes to the end of the release chain.
ReleaseFailedChain(m, tail) ==
    [Store(m, m.L.ReleaseChainTail, m.L.ConnectionChain)
        EXCEPT !.L.ReleaseChainTail = tail]

(***************************************************************************)
(* Connections and the state a delivery works on.                          *)
(***************************************************************************)

\* A connection as QuicConnInitialize returns it for a packet with
\* destination CID cid: its source CID is cid, and the caller holds the
\* handle owner's reference.
NewConnection(cid) ==
    [ CID              |-> cid,
      SourceCIDs       |-> TRUE,
      HandleOwnerRefs  |-> 1,
      LookupResultRefs |-> 0,
      Worker           |-> FALSE,
      Binding          |-> FALSE,
      WorkerQueued     |-> FALSE,
      RecvQueue        |-> << >>,
      OperQueue        |-> << >>,
      BackUpOperUsed   |-> 0 ]

\* A connection that was set up earlier.
EstablishedConnection(cid) ==
    [NewConnection(cid) EXCEPT !.Worker = TRUE, !.Binding = TRUE,
                               !.WorkerQueued = TRUE]

\* &Connection->BackUpOper of connection owner, filled in as a silent
\* shutdown.
BackUpOper(owner) ==
    [ Owner            |-> owner,
      Type             |-> "API_CALL",
      ApiType          |-> "CONN_SHUTDOWN",
      Flags            |-> "SILENT",
      ErrorCode        |-> 0,
      FreeAfterProcess |-> FALSE ]

\* The state a delivery reads and writes, as one value.
World ==
    [ st     |-> Tracking,
      conn   |-> conn,
      Lookup |-> Lookup,
      mem    |-> CurrentHandshakeMemoryUsage,
      hs     |-> HandshakeConnections,
      ub     |-> NullDeref ]

\* A mutation of QuicBindingHasListenerRegistered: the list is not read.
ListenerAlwaysRegistered == TRUE

QuicBindingHasListenerRegistered == Listeners # << >>

QuicLookupFindConnection(lookup, cid) == lookup[cid]

QuicConnQueueRecvDatagram(cs, c, head, length) ==
    [cs EXCEPT ![c].RecvQueue = Append(@, [Chain |-> head, Length |-> length])]

\* A mutation of DeliverToConnection: the reference is not released.
DeliverKeepingReference(cs, c, head, length) ==
    QuicConnQueueRecvDatagram(cs, c, head, length)

\* The end of QuicBindingDeliverPackets for connection c, which the caller
\* holds a reference of the lookup on: the chain is queued and the reference
\* is released.
DeliverToConnection(cs, c, head, length) ==
    [QuicConnQueueRecvDatagram(cs, c, head, length)
        EXCEPT ![c].LookupResultRefs = @ - 1]

\* QuicLookupFindConnection returned c, with a reference on it.
LookupResult(cs, c) == [cs EXCEPT ![c].LookupResultRefs = @ + 1]

\* What can go wrong in QuicBindingQueueStatelessOperation, by drop reason.
StatelessFaults ==
    { "none", "NULL worker pool", "Worker overloaded (stateless oper)",
      "Alloc failure for stateless oper ctx",
      "Alloc failure for stateless operation" }

\* What can go wrong in QuicBindingCreateConnection, by drop reason.
ConnectionFaults ==
    { "Failed to initialize new connection", "Worker overloaded",
      "Clean up in progress", "Failed to insert scid" }

\* What the dereference of a null connection pointer can come to: the
\* process dies, the compare-exchange reads a non-zero flag, or it reads
\* zero and the operation found at that address is queued.
UbOutcomes == { "crash", "skip", "queue" }

\* QuicBindingQueueStatelessOperation for the chain that starts at datagram
\* d, whose packet is p.
QuicBindingQueueStatelessOperation(W, OperType, d, p, fault) ==
    IF fault \in { "NULL worker pool", "Worker overloaded (stateless oper)" }
    THEN [ W |-> W, ok |-> FALSE ]
    ELSE LET res == QuicBindingCreateStatelessOperation(
                        W.st, clock, p.RemoteAddress, d,
                        fault # "Alloc failure for stateless oper ctx")
         IN  IF res.result = NULL
             THEN [ W |-> [W EXCEPT !.st = res.st], ok |-> FALSE ]
             ELSE IF fault = "Alloc failure for stateless operation"
             THEN [ W |-> [W EXCEPT !.st =
                            [res.st EXCEPT !.ctx =
                                QuicBindingReleaseStatelessOperation(
                                    res.st.ctx, res.result, "receive")]],
                    ok |-> FALSE ]
             ELSE [ W |-> [W EXCEPT !.st =
                            [res.st EXCEPT !.ctx[res.result].OperType = OperType]],
                    ok |-> TRUE ]

\* A mutation of QuicBindingQueueStatelessReset: a datagram of exactly the
\* minimum length is answered.
QueueStatelessResetAtMinimum(W, d, p, fault) ==
    IF p.IsLongHeader THEN [ W |-> W, ok |-> FALSE ]
    ELSE IF p.BufferLength < QUIC_MIN_STATELESS_RESET_PACKET_LENGTH
    THEN [ W |-> W, ok |-> FALSE ]
    ELSE IF Exclusive THEN [ W |-> W, ok |-> FALSE ]
    ELSE QuicBindingQueueStatelessOperation(W, "STATELESS_RESET", d, p, fault)

QuicBindingQueueStatelessReset(W, d, p, fault) ==
    IF p.IsLongHeader THEN [ W |-> W, ok |-> FALSE ]
    ELSE IF p.BufferLength <= QUIC_MIN_STATELESS_RESET_PACKET_LENGTH
    THEN [ W |-> W, ok |-> FALSE ]
    ELSE IF Exclusive THEN [ W |-> W, ok |-> FALSE ]
    ELSE QuicBindingQueueStatelessOperation(W, "STATELESS_RESET", d, p, fault)

\* A mutation of QuicBindingPreprocessPacket: a shared binding rejects only
\* the empty CID.
PreprocessWithoutMinimumLength(W, d, p, fault) ==
    LET reject == [ W |-> W, Accept |-> FALSE, ReleasePacket |-> TRUE ]
    IN  IF ~p.ValidInvariant THEN reject
        ELSE IF Exclusive /\ Len(p.DestCID) # 0 THEN reject
        ELSE IF ~Exclusive /\ Len(p.DestCID) = 0 THEN reject
        ELSE IF p.IsLongHeader /\ ~QuicIsVersionSupported(p.Version)
        THEN IF ~QuicBindingHasListenerRegistered THEN reject
             ELSE LET q == QuicBindingQueueStatelessOperation(
                               W, "VERSION_NEGOTIATION", d, p, fault)
                  IN  [ W |-> q.W, Accept |-> FALSE, ReleasePacket |-> ~q.ok ]
        ELSE [ W |-> W, Accept |-> TRUE, ReleasePacket |-> FALSE ]

\* The result holds what becomes of the state, whether the packet is
\* accepted and *ReleasePacket.
QuicBindingPreprocessPacket(W, d, p, fault) ==
    LET reject == [ W |-> W, Accept |-> FALSE, ReleasePacket |-> TRUE ]
    IN  IF ~p.ValidInvariant THEN reject
        ELSE IF Exclusive /\ Len(p.DestCID) # 0 THEN reject
        ELSE IF ~Exclusive /\ Len(p.DestCID) = 0 THEN reject
        ELSE IF ~Exclusive
                /\ Len(p.DestCID) < QUIC_MIN_INITIAL_CONNECTION_ID_LENGTH
        THEN reject
        ELSE IF p.IsLongHeader /\ ~QuicIsVersionSupported(p.Version)
        THEN IF ~QuicBindingHasListenerRegistered THEN reject
             ELSE LET q == QuicBindingQueueStatelessOperation(
                               W, "VERSION_NEGOTIATION", d, p, fault)
                  IN  [ W |-> q.W, Accept |-> FALSE, ReleasePacket |-> ~q.ok ]
        ELSE [ W |-> W, Accept |-> TRUE, ReleasePacket |-> FALSE ]

\* A mutation of QuicBindingShouldCreateConnection: the type of the packet
\* is not asked.
ShouldCreateForAnyLongHeader(p) ==
    IF ~p.IsLongHeader THEN FALSE
    ELSE IF ~QuicBindingHasListenerRegistered THEN FALSE
    ELSE p.Version # "VER_NEG"

QuicBindingShouldCreateConnection(p) ==
    IF ~p.IsLongHeader THEN FALSE
    ELSE IF ~QuicBindingHasListenerRegistered THEN FALSE
    ELSE IF p.Version = "VER_NEG" THEN FALSE
    ELSE QuicPacketCanCreateNewConnection(p)

\* A mutation of QuicBindingProcessRetryToken: the remote address of the
\* token is not compared.
ProcessRetryTokenAnyAddress(p) ==
    IF p.Token.Length # SizeofRetryTokenContents THEN FALSE
    ELSE IF ~QuicRetryTokenDecrypt(p.DestCID, p.Token) THEN FALSE
    ELSE p.Token.OrigConnIdLength <= SizeofOrigConnId

QuicBindingProcessRetryToken(p) ==
    IF p.Token.Length # SizeofRetryTokenContents THEN FALSE
    ELSE IF ~QuicRetryTokenDecrypt(p.DestCID, p.Token) THEN FALSE
    ELSE IF p.Token.OrigConnIdLength > SizeofOrigConnId THEN FALSE
    ELSE QuicAddrCompare(p.Token.RemoteAddress, p.RemoteAddress)

\* A mutation of HandshakeMemoryBelowLimit: usage at the limit passes.
HandshakeMemoryWithinLimit(usage) == usage <= CurrentMemoryLimit

HandshakeMemoryBelowLimit(usage) == usage < CurrentMemoryLimit

\* The result holds the return value, *DropPacket and Packet->ValidToken.
QuicBindingShouldRetryConnection(W, p) ==
    IF HandshakeMemoryBelowLimit(W.mem)
    THEN [ Retry |-> FALSE, DropPacket |-> FALSE, ValidToken |-> FALSE ]
    ELSE IF ~p.ValidLongHeader
    THEN [ Retry |-> FALSE, DropPacket |-> TRUE, ValidToken |-> FALSE ]
    ELSE IF p.Token.Length = 0
    THEN [ Retry |-> TRUE, DropPacket |-> FALSE, ValidToken |-> FALSE ]
    ELSE IF ~QuicBindingProcessRetryToken(p)
    THEN [ Retry |-> FALSE, DropPacket |-> TRUE, ValidToken |-> FALSE ]
    ELSE [ Retry |-> FALSE, DropPacket |-> FALSE, ValidToken |-> TRUE ]

\* A mutation of CreateConnectionExit: NULL is returned where the code
\* returns the connection that holds the CID.
CreateConnectionExitReturningNull(W, new, BindingRefAdded, Connection, ub) ==
    LET W1 == [W EXCEPT !.conn[new].SourceCIDs = FALSE,
                        !.conn[new].LookupResultRefs = @ - 1]
    IN  IF ~BindingRefAdded
        THEN [ W |-> [W1 EXCEPT !.conn[new].HandleOwnerRefs = @ - 1],
               Connection |-> NULL, crashed |-> FALSE ]
        ELSE IF Connection = NULL
        THEN [ W |-> IF ub = "queue"
                     THEN [W1 EXCEPT !.ub = TRUE,
                                     !.conn[new].OperQueue =
                                         Append(@, BackUpOper(NULL))]
                     ELSE [W1 EXCEPT !.ub = TRUE],
               Connection |-> NULL, crashed |-> ub = "crash" ]
        ELSE IF W1.conn[Connection].BackUpOperUsed = 0
        THEN [ W |-> [W1 EXCEPT !.conn[Connection].BackUpOperUsed = 1,
                                !.conn[new].OperQueue =
                                    Append(@, BackUpOper(Connection))],
               Connection |-> NULL, crashed |-> FALSE ]
        ELSE [ W |-> W1, Connection |-> NULL, crashed |-> FALSE ]

\* QuicBindingCreateConnection from the label Exit on.  new is NewConnection,
\* Connection is what QuicLookupAddSourceConnectionID left in the variable
\* of that name: the connection that holds the CID, or NULL.
CreateConnectionExit(W, new, BindingRefAdded, Connection, ub) ==
    LET W1 == [W EXCEPT !.conn[new].SourceCIDs = FALSE,
                        !.conn[new].LookupResultRefs = @ - 1]
    IN  IF ~BindingRefAdded
        THEN [ W |-> [W1 EXCEPT !.conn[new].HandleOwnerRefs = @ - 1],
               Connection |-> Connection, crashed |-> FALSE ]
        ELSE IF Connection = NULL
        THEN [ W |-> IF ub = "queue"
                     THEN [W1 EXCEPT !.ub = TRUE,
                                     !.conn[new].OperQueue =
                                         Append(@, BackUpOper(NULL))]
                     ELSE [W1 EXCEPT !.ub = TRUE],
               Connection |-> NULL, crashed |-> ub = "crash" ]
        ELSE IF W1.conn[Connection].BackUpOperUsed = 0
        THEN [ W |-> [W1 EXCEPT !.conn[Connection].BackUpOperUsed = 1,
                                !.conn[new].OperQueue =
                                    Append(@, BackUpOper(Connection))],
               Connection |-> Connection, crashed |-> FALSE ]
        ELSE [ W |-> W1, Connection |-> Connection, crashed |-> FALSE ]

\* QuicBindingCreateConnection for a chain headed by packet p.
QuicBindingCreateConnection(W, p, fault, ub) ==
    IF fault = "Failed to initialize new connection"
    THEN [ W |-> W, Connection |-> NULL, crashed |-> FALSE ]
    ELSE
    LET new == Len(W.conn) + 1
        W1  == [W EXCEPT !.conn =
                   Append(@, [NewConnection(p.DestCID)
                                 EXCEPT !.LookupResultRefs = 1])]
        W2  == [W1 EXCEPT !.conn[new].Worker = TRUE]
        W3  == [W2 EXCEPT !.conn[new].Binding = TRUE,
                          !.hs = @ + 1,
                          !.mem = @ + QUIC_CONN_HANDSHAKE_MEMORY_USAGE]
        existing == QuicLookupFindConnection(W3.Lookup, p.DestCID)
    IN  IF fault = "Worker overloaded"
        THEN CreateConnectionExit(W1, new, FALSE, NULL, ub)
        ELSE IF fault = "Clean up in progress"
        THEN CreateConnectionExit(W2, new, FALSE, NULL, ub)
        ELSE IF existing # NULL
        THEN CreateConnectionExit(
                 [W3 EXCEPT !.conn[existing].LookupResultRefs = @ + 1],
                 new, TRUE, existing, ub)
        ELSE IF fault = "Failed to insert scid"
        THEN CreateConnectionExit(W3, new, TRUE, NULL, ub)
        ELSE [ W |-> [W3 EXCEPT !.Lookup[p.DestCID] = new,
                                !.conn[new].WorkerQueued = TRUE],
               Connection |-> new, crashed |-> FALSE ]

\* QuicBindingDeliverPackets after QuicLookupFindConnection has found no
\* connection, for the chain of the given length that starts at head with
\* packet p.
QuicBindingDeliverMiss(W, head, p, length, fault, ub) ==
    IF ~QuicBindingShouldCreateConnection(p)
    THEN LET q == QuicBindingQueueStatelessReset(W, head, p, fault)
         IN  [ W |-> q.W, ok |-> q.ok, Connection |-> NULL, crashed |-> FALSE,
               ValidToken |-> p.ValidToken ]
    ELSE
    LET retry == QuicBindingShouldRetryConnection(W, p)
    IN  IF retry.Retry
        THEN LET q == QuicBindingQueueStatelessOperation(W, "RETRY", head, p, fault)
             IN  [ W |-> q.W, ok |-> q.ok, Connection |-> NULL, crashed |-> FALSE,
                   ValidToken |-> p.ValidToken ]
        ELSE IF retry.DropPacket
        THEN [ W |-> W, ok |-> FALSE, Connection |-> NULL, crashed |-> FALSE,
               ValidToken |-> p.ValidToken ]
        ELSE
        LET cr == QuicBindingCreateConnection(W, p, fault, ub)
        IN  IF cr.crashed \/ cr.Connection = NULL
            THEN [ W |-> cr.W, ok |-> FALSE, Connection |-> NULL,
                   crashed |-> cr.crashed,
                   ValidToken |-> p.ValidToken \/ retry.ValidToken ]
            ELSE [ W |-> [cr.W EXCEPT
                            !.conn = DeliverToConnection(
                                         @, cr.Connection, head, length)],
                   ok |-> TRUE, Connection |-> cr.Connection,
                   crashed |-> FALSE,
                   ValidToken |-> p.ValidToken \/ retry.ValidToken ]

(***************************************************************************)
(* QuicBindingReceive, step by step.                                       *)
(***************************************************************************)

ProcessCrashed == \E t \in Threads : rpc[t] = "crashed"

SetWorld(W) ==
    /\ ctx' = W.st.ctx
    /\ StatelessOperList' = W.st.list
    /\ StatelessOperTable' = W.st.table
    /\ StatelessOperCount' = W.st.count
    /\ conn' = W.conn
    /\ Lookup' = W.Lookup
    /\ CurrentHandshakeMemoryUsage' = W.mem
    /\ HandshakeConnections' = W.hs
    /\ NullDeref' = W.ub

SetMem(t, m) ==
    /\ local' = [local EXCEPT ![t] = m.L]
    /\ NextPtr' = m.N

\* The record of a call of QuicBindingDeliverPackets that returned.
DeliverCall(t, m, c, ok) ==
    [ t          |-> t,
      Chain      |-> Chain(m.N, m.L.ConnectionChain),
      Length     |-> m.L.ConnectionChainLength,
      Connection |-> c,
      ok         |-> ok ]

\* The end of QuicBindingReceive: the release chain goes back to the
\* datapath.
ReturnReleaseChain(t, m) ==
    Returned' = IF m.L.ReleaseChain # NULL
                THEN Append(Returned, [ t |-> t, Chain |-> m.L.ReleaseChain ])
                ELSE Returned

\* The faults that can be injected now.
Injectable(fs) == IF faults < FaultLimit THEN fs ELSE { "none" }

\* The destination CID of p has a length the binding accepts.
CidLengthAccepted(p) ==
    IF Exclusive THEN Len(p.DestCID) = 0
    ELSE Len(p.DestCID) >= QUIC_MIN_INITIAL_CONNECTION_ID_LENGTH

\* The faults that matter to the preprocessing of packet p.
PreprocessFaults(p) ==
    IF /\ p.ValidInvariant
       /\ CidLengthAccepted(p)
       /\ p.IsLongHeader
       /\ ~QuicIsVersionSupported(p.Version)
       /\ QuicBindingHasListenerRegistered
    THEN Injectable(StatelessFaults) ELSE { "none" }

\* The faults that matter to the delivery of a chain headed by packet p for
\* which the lookup found no connection.
DeliverFaults(p) ==
    IF ~QuicBindingShouldCreateConnection(p)
    THEN IF \/ p.IsLongHeader
            \/ p.BufferLength <= QUIC_MIN_STATELESS_RESET_PACKET_LENGTH
            \/ Exclusive
         THEN { "none" } ELSE Injectable(StatelessFaults)
    ELSE IF QuicBindingShouldRetryConnection(World, p).Retry
    THEN Injectable(StatelessFaults)
    ELSE IF QuicBindingShouldRetryConnection(World, p).DropPacket
    THEN { "none" }
    ELSE Injectable({ "none" } \cup ConnectionFaults)

CountFault(fault) ==
    faults' = IF fault = "none" THEN faults ELSE faults + 1

\* One round of the loop for the next datagram of the input chain, a packet
\* of the given set.  It ends after the insertion into the connection chain
\* or, when the current chain has to be delivered first and the lookup finds
\* no connection for it, after that lookup.
ReceiveDatagramOf(t, packets, maxLen) ==
    /\ ~ProcessCrashed
    /\ rpc[t] = "loop"
    /\ local[t].Detached < maxLen
    /\ \E p \in packets : \E fault \in PreprocessFaults(p) :
        LET d   == DatagramId(t, local[t].Detached + 1)
            m0  == Detach(Mem(t), d)
            pre == QuicBindingPreprocessPacket(World, d, p, fault)
            head == m0.L.ConnectionChain
            found == QuicLookupFindConnection(Lookup, dg[head].DestCID)
        IN  /\ dg' = (d :> p) @@ dg
            /\ CountFault(fault)
            /\ IF ~pre.Accept
               THEN /\ SetMem(t, IF pre.ReleasePacket
                                 THEN ReleaseAppend(m0, d) ELSE m0)
                    /\ SetWorld(pre.W)
                    /\ UNCHANGED << rpc, DeliverCalls >>
               ELSE IF ~StartsNewChain(m0, p)
               THEN /\ SetMem(t, InsertInChain(m0, d, p))
                    /\ SetWorld(World)
                    /\ UNCHANGED << rpc, DeliverCalls >>
               ELSE IF found # NULL
               THEN /\ SetMem(t, InsertInChain(ResetConnectionChain(m0), d, p))
                    /\ SetWorld([World EXCEPT !.conn =
                           DeliverToConnection(
                               LookupResult(@, found), found, head,
                               m0.L.ConnectionChainLength)])
                    /\ DeliverCalls' =
                           Append(DeliverCalls, DeliverCall(t, m0, found, TRUE))
                    /\ UNCHANGED rpc
               ELSE /\ SetMem(t, m0)
                    /\ SetWorld(World)
                    /\ rpc' = [rpc EXCEPT ![t] = "miss"]
                    /\ UNCHANGED DeliverCalls
    /\ UNCHANGED << clock, ticks, spc, sTimeMs, Exclusive, Listeners, Returned,
                    workerVars, listenerVars, matchVars, buildVars >>

\* QuicBindingDeliverPackets after a lookup that found no connection, and
\* what QuicBindingReceive does with its result.
DeliverMiss(t) ==
    /\ ~ProcessCrashed
    /\ rpc[t] \in { "miss", "last miss" }
    /\ \E fault \in DeliverFaults(dg[local[t].ConnectionChain]) :
       \E ub \in UbOutcomes :
        /\ fault # "Failed to insert scid" => ub = "skip"
        /\ CountFault(fault)
        /\ LET m    == Mem(t)
               head == m.L.ConnectionChain
               res  == QuicBindingDeliverMiss(
                           World, head, dg[head], m.L.ConnectionChainLength,
                           fault, ub)
               m1   == IF res.ok THEN m
                       ELSE ReleaseFailedChain(m,
                                IF rpc[t] = "miss"
                                THEN TailAfterFailedDeliver(m.L)
                                ELSE TailAfterLastFailedDeliver(m.L))
           IN  /\ SetWorld(res.W)
               /\ dg' = [dg EXCEPT ![head].ValidToken = res.ValidToken]
               /\ IF res.crashed
                  THEN /\ rpc' = [rpc EXCEPT ![t] = "crashed"]
                       /\ UNCHANGED << local, NextPtr, Returned, DeliverCalls >>
                  ELSE /\ DeliverCalls' =
                              Append(DeliverCalls,
                                     DeliverCall(t, m, res.Connection, res.ok))
                       /\ IF rpc[t] = "miss"
                          THEN /\ SetMem(t, InsertInChain(
                                             ResetConnectionChain(m1),
                                             m1.L.Datagram, dg[m1.L.Datagram]))
                               /\ rpc' = [rpc EXCEPT ![t] = "loop"]
                               /\ UNCHANGED Returned
                          ELSE /\ SetMem(t, m1)
                               /\ ReturnReleaseChain(t, m1)
                               /\ rpc' = [rpc EXCEPT ![t] = "done"]
    /\ UNCHANGED << clock, ticks, spc, sTimeMs, Exclusive, Listeners,
                    workerVars, listenerVars, matchVars, buildVars >>

\* The input chain is at its end: the last connection chain is delivered,
\* up to a lookup that finds no connection, and the release chain returned.
ReceiveEnd(t) ==
    /\ ~ProcessCrashed
    /\ rpc[t] = "loop"
    /\ local[t].Detached >= 1
    /\ LET m     == Mem(t)
           head  == m.L.ConnectionChain
           found == QuicLookupFindConnection(Lookup, dg[head].DestCID)
       IN  IF head = NULL
           THEN /\ ReturnReleaseChain(t, m)
                /\ rpc' = [rpc EXCEPT ![t] = "done"]
                /\ UNCHANGED << conn, DeliverCalls >>
           ELSE IF found # NULL
           THEN /\ conn' = DeliverToConnection(
                               LookupResult(conn, found), found, head,
                               m.L.ConnectionChainLength)
                /\ DeliverCalls' =
                       Append(DeliverCalls, DeliverCall(t, m, found, TRUE))
                /\ ReturnReleaseChain(t, m)
                /\ rpc' = [rpc EXCEPT ![t] = "done"]
           ELSE /\ rpc' = [rpc EXCEPT ![t] = "last miss"]
                /\ UNCHANGED << conn, DeliverCalls, Returned >>
    /\ UNCHANGED << statelessVars, Exclusive, Listeners, Lookup,
                    CurrentHandshakeMemoryUsage, HandshakeConnections,
                    NullDeref, dg, NextPtr, local, faults, workerVars,
                    listenerVars, matchVars, buildVars >>

ReceiveDatagram(t) == ReceiveDatagramOf(t, Packets, MaxChain)

ReceivePeerDatagram(t) == ReceiveDatagramOf(t, PeerPackets, MaxPeerChain)

\* The connections that exist when the receive call starts: none, one or
\* two, each in the lookup under its CID.
ExistingConnections(exclusive, n) ==
    IF exclusive
    THEN SubSeq(<< EstablishedConnection(CidEmpty) >>, 1, n)
    ELSE SubSeq(<< EstablishedConnection(CidX), EstablishedConnection(CidY) >>,
                1, n)

LookupOf(cs) ==
    [ c \in CIDs |->
        IF \E i \in 1..Len(cs) : cs[i].CID = c
        THEN CHOOSE i \in 1..Len(cs) : cs[i].CID = c
        ELSE NULL ]

\* The binding when the threads of running enter QuicBindingReceive, in a
\* behaviour in which the given number of allocations and worker assignments
\* can fail.
InitBindingOf(running, limit) ==
    /\ MaxOperations = StatelessOperationsLimit
    /\ FaultLimit = limit
    /\ Uninitialized = FALSE
    /\ NoLockHeld
    /\ clock = FirstTime
    /\ ticks = 0
    /\ ctx = << >>
    /\ StatelessOperList = << >>
    /\ StatelessOperTable = [h \in HashBuckets |-> << >>]
    /\ StatelessOperCount = 0
    /\ spc = [t \in Threads |-> "idle"]
    /\ sTimeMs = [t \in Threads |-> FirstTime]
    /\ HandshakeConnections = 0
    /\ NullDeref = FALSE
    /\ dg = << >>
    /\ NextPtr = << >>
    /\ rpc = [t \in Threads |-> IF t \in running THEN "loop" ELSE "idle"]
    /\ local = [t \in Threads |-> InitLocal]
    /\ faults = 0
    /\ Returned = << >>
    /\ DeliverCalls = << >>
    /\ Sent = << >>
    /\ SendContexts = << >>
    /\ lpc = [t \in Threads |-> IdleRegister]
    /\ Registered = << >>
    /\ MaximizePartitioning = FALSE
    /\ Rundown = [ id \in 1..MaxListenerId |-> [ Active |-> TRUE, Refs |-> 0 ] ]
    /\ Matches = << >>

InitBinding(running) == InitBindingOf(running, MaxFaults)

\* One receive call on a binding that is shared or exclusive, with or
\* without a listener, with or without connections.
Init ==
    /\ InitBinding({"t1"})
    /\ Exclusive \in BOOLEAN
    /\ Listeners \in { << >>, OneListener }
    /\ RandomReservedVersion = ReservedVersionOf(<< 0, 0, 0, 0 >>)
    /\ Exclusive => Listeners = << >>
    /\ \E n \in 0..2 :
        /\ Exclusive => n <= 1
        /\ conn = ExistingConnections(Exclusive, n)
    /\ Lookup = LookupOf(conn)
    /\ CurrentHandshakeMemoryUsage =
           CurrentMemoryLimit - QUIC_CONN_HANDSHAKE_MEMORY_USAGE

Next ==
    \E t \in Threads :
        \/ ReceiveDatagram(t)
        \/ DeliverMiss(t)
        \/ ReceiveEnd(t)

Spec == Init /\ [][Next]_vars

\* Two receive calls in parallel on a shared binding with a listener.
InitConcurrent ==
    /\ InitBinding(Threads)
    /\ Exclusive = FALSE
    /\ Listeners = OneListener
    /\ RandomReservedVersion = ReservedVersionOf(<< 0, 0, 0, 0 >>)
    /\ conn = << >>
    /\ Lookup = LookupOf(conn)
    /\ CurrentHandshakeMemoryUsage = 0

NextConcurrent ==
    \E t \in Threads :
        \/ ReceivePeerDatagram(t)
        \/ DeliverMiss(t)
        \/ ReceiveEnd(t)

SpecConcurrent == InitConcurrent /\ [][NextConcurrent]_vars

(***************************************************************************)
(* The worker: QuicBindingProcessStatelessOperation and the release that   *)
(* follows it.                                                             *)
(***************************************************************************)

\* The recommended length of a stateless reset and the length of its token
\* (quicdef.h).
QUIC_RECOMMENDED_STATELESS_RESET_PACKET_LENGTH == 41

QUIC_STATELESS_RESET_TOKEN_LENGTH == 16

\* sizeof(QUIC_VERSION_NEGOTIATION_PACKET): the first byte, the version and
\* the length of the destination CID.
SizeofVersionNegotiationPacket == 6

Uint8 == 0..255

\* The bytes QuicRandom can draw for the Unused field in the model.
RandomBytes == { 127, 128 }

\* The four bytes of a version.
VersionBytes(Version) ==
    CASE Version = "DRAFT_23" -> << 255, 0, 0, 23 >>
      [] Version = "MS_1"     -> << 171, 205, 0, 0 >>
      [] Version = "VER_NEG"  -> << 0, 0, 0, 0 >>
      [] OTHER                -> << 222, 173, 190, 239 >>

QUIC_VERSION_VER_NEG == VersionBytes("VER_NEG")

RECURSIVE VersionListBytes(_)
VersionListBytes(list) ==
    IF list = << >> THEN << >>
    ELSE VersionBytes(Head(list)) \o VersionListBytes(Tail(list))

\* What can go wrong in QuicBindingProcessStatelessOperation.
ProcessFaults == { "none", "stateless send context", "send datagram" }

\* The failures of QuicHashCompute and of QuicEncrypt while an operation of
\* the given type is processed.
CryptoFaults(OperationType) ==
    IF OperationType = "STATELESS_RESET" THEN { "reset token hash" }
    ELSE IF OperationType = "RETRY" THEN { "retry token encryption" }
    ELSE { }

\* The outcome of a call whose QuicDataPathBindingAllocSendContext failed.
NoSendContext ==
    [ Send |-> << >>, SendContextAllocated |-> FALSE, SendContextFreed |-> 0,
      AssertFailed |-> FALSE ]

\* The outcome of a call that sends nothing: how often the send context was
\* freed.
NothingSent(freed) ==
    [ Send |-> << >>, SendContextAllocated |-> TRUE,
      SendContextFreed |-> freed, AssertFailed |-> FALSE ]

\* The outcome of a call that hands the datagram to QuicBindingSendFromTo.
SentDatagram(datagram, assertFailed) ==
    [ Send |-> << datagram >>, SendContextAllocated |-> TRUE,
      SendContextFreed |-> 0,
      AssertFailed |-> assertFailed ]

\* A mutation of VersionNegotiationPacket: the CIDs in the order of the
\* received packet.
VersionNegotiationSwapped(p, reserved, RandomValue) ==
    [ Type          |-> "VERSION_NEGOTIATION",
      IsLongHeader  |-> TRUE,
      Version       |-> QUIC_VERSION_VER_NEG,
      Unused        |-> RandomValue % 128,
      DestCIDLength |-> Len(p.DestCID) % 256,
      Buffer        |-> p.DestCID \o << Len(p.SourceCID) % 256 >> \o p.SourceCID
                        \o reserved \o VersionListBytes(QuicSupportedVersionList),
      Length        |-> ( SizeofVersionNegotiationPacket + Len(p.SourceCID) + 1
                          + Len(p.DestCID) + 4
                          + 4 * Len(QuicSupportedVersionList) ) % 65536,
      RemoteAddress |-> p.RemoteAddress ]

\* The Version Negotiation packet for the received packet p.  Buffer holds
\* the bytes that follow the DestCIDLength field.
VersionNegotiationPacket(p, reserved, RandomValue) ==
    [ Type          |-> "VERSION_NEGOTIATION",
      IsLongHeader  |-> TRUE,
      Version       |-> QUIC_VERSION_VER_NEG,
      Unused        |-> RandomValue % 128,
      DestCIDLength |-> Len(p.SourceCID) % 256,
      Buffer        |-> p.SourceCID \o << Len(p.DestCID) % 256 >> \o p.DestCID
                        \o reserved \o VersionListBytes(QuicSupportedVersionList),
      Length        |-> ( SizeofVersionNegotiationPacket + Len(p.SourceCID) + 1
                          + Len(p.DestCID) + 4
                          + 4 * Len(QuicSupportedVersionList) ) % 65536,
      RemoteAddress |-> p.RemoteAddress ]

\* The uint8_t PacketLength of a stateless reset: three random bits on top
\* of the recommended length.
ResetLengthDrawn(RandomValue) ==
    ((RandomValue \div 32) + QUIC_RECOMMENDED_STATELESS_RESET_PACKET_LENGTH) % 256

\* A mutation of ResetLengthClamped: the received length itself.
ResetLengthNotBelow(PacketLength, BufferLength) ==
    IF PacketLength >= BufferLength
    THEN BufferLength % 256
    ELSE PacketLength

\* The length after the comparison with the length of the received packet.
ResetLengthClamped(PacketLength, BufferLength) ==
    IF PacketLength >= BufferLength
    THEN ((BufferLength % 256) - 1) % 256
    ELSE PacketLength

\* QuicBindingGenerateStatelessResetToken: the status of QuicHashCompute
\* and the sixteen bytes at ResetToken, which are written only if the hash
\* was computed and are otherwise those the buffer held.
QuicBindingGenerateStatelessResetToken(CID, hashed) ==
    [ Status     |-> IF hashed THEN "SUCCESS" ELSE "FAILED",
      ResetToken |-> IF hashed
                     THEN [ Written |-> TRUE,
                            HashOf  |-> SubSeq(CID, 1, MSQUIC_CONNECTION_ID_LENGTH) ]
                     ELSE [ Written |-> FALSE, HashOf |-> << >> ] ]

\* The stateless reset for the received packet p.  The status of
\* QuicBindingGenerateStatelessResetToken is not looked at.
StatelessResetPacket(p, RandomValue, hashed) ==
    LET PacketLength ==
            ResetLengthClamped(ResetLengthDrawn(RandomValue), p.BufferLength)
    IN  [ Type          |-> "STATELESS_RESET",
          IsLongHeader  |-> FALSE,
          FixedBit      |-> 1,
          KeyPhase      |-> p.KeyPhase,
          Length        |-> PacketLength,
          ResetToken    |-> QuicBindingGenerateStatelessResetToken(
                               p.DestCID, hashed).ResetToken,
          RemoteAddress |-> p.RemoteAddress ]

\* QuicEncrypt of the token in place: the key the contents are under
\* afterwards, which is none when the encryption failed.
QuicEncrypt(key, encrypted) == IF encrypted THEN key ELSE "none"

\* The Retry for the received packet p, with the token encrypted under the
\* IV made of the new connection ID.  What QuicEncrypt returns is not looked
\* at.
RetryPacket(p, NewDestCID, encrypted) ==
    [ Type          |-> "RETRY",
      IsLongHeader  |-> TRUE,
      Version       |-> p.Version,
      DestCID       |-> p.SourceCID,
      SourceCID     |-> NewDestCID,
      OrigDestCID   |-> p.DestCID,
      Token         |-> RetryToken(
                            SizeofRetryTokenContents,
                            QuicEncrypt("StatelessRetryKey", encrypted),
                            RetryIv(NewDestCID), p.RemoteAddress,
                            Len(p.DestCID) % 256, p.DestCID),
      RemoteAddress |-> p.RemoteAddress ]

\* QuicBindingProcessStatelessOperation for a context whose datagram holds
\* packet p, on a binding with the given reserved version.  random holds
\* what QuicRandom draws.
QuicBindingProcessStatelessOperation(OperationType, p, reserved, fault, random) ==
    IF fault = "stateless send context" THEN NoSendContext
    ELSE IF OperationType = "VERSION_NEGOTIATION"
    THEN IF fault = "send datagram" THEN NothingSent(1)
         ELSE SentDatagram(
                  VersionNegotiationPacket(p, reserved, random.Byte), FALSE)
    ELSE IF OperationType = "STATELESS_RESET"
    THEN LET reset == StatelessResetPacket(
                          p, random.Byte, fault # "reset token hash")
             failed == reset.Length < QUIC_MIN_STATELESS_RESET_PACKET_LENGTH
         IN  IF fault = "send datagram"
             THEN [NothingSent(1) EXCEPT !.AssertFailed = failed]
             ELSE SentDatagram(reset, failed)
    ELSE IF OperationType = "RETRY"
    THEN IF fault = "send datagram" THEN NothingSent(2)
         ELSE SentDatagram(
                  RetryPacket(p, random.NewDestCID,
                              fault # "retry token encryption"), FALSE)
    ELSE NothingSent(1)

\* What QuicRandom can draw while an operation of the given type is
\* processed, when its single bytes come from the set bytes.
RandomDraws(OperationType, bytes) ==
    IF OperationType = "RETRY"
    THEN [ Byte : { 0 }, NewDestCID : ServerCIDs ]
    ELSE [ Byte : bytes, NewDestCID : { CidS1 } ]

\* The worker runs the operation of context c and then releases the context,
\* which returns the datagram to the datapath.
WorkerStatelessOperationOf(c, bytes) ==
    /\ ~ProcessCrashed
    /\ c \in 1..Len(ctx)
    /\ ctx[c].OperType # "NONE"
    /\ ctx[c].RelPc = "pending"
    /\ \E fault \in Injectable(ProcessFaults \cup CryptoFaults(ctx[c].OperType)) :
       \E random \in RandomDraws(ctx[c].OperType, bytes) :
        LET d   == ctx[c].Datagram
            res == QuicBindingProcessStatelessOperation(
                       ctx[c].OperType, dg[d], RandomReservedVersion,
                       fault, random)
        IN  /\ CountFault(fault)
            /\ Sent' = Sent \o
                   [ i \in 1..Len(res.Send) |->
                       [ Context |-> c, Datagram |-> d, Packet |-> res.Send[i],
                         Random |-> random,
                         AssertFailed |-> res.AssertFailed ] ]
            /\ SendContexts' = Append(SendContexts,
                   [ Context       |-> c,
                     OperationType |-> ctx[c].OperType,
                     Allocated     |-> res.SendContextAllocated,
                     Sent          |-> Len(res.Send),
                     Freed         |-> res.SendContextFreed ])
            /\ Returned' = Append(Returned, [ t |-> "worker", Chain |-> d ])
    /\ ctx' = QuicBindingReleaseStatelessOperation(ctx, c, "worker")
    /\ UNCHANGED << clock, ticks, StatelessOperList, StatelessOperTable,
                    StatelessOperCount, spc, sTimeMs, Exclusive, Listeners,
                    Lookup, conn, CurrentHandshakeMemoryUsage,
                    HandshakeConnections, NullDeref, dg, NextPtr, rpc, local,
                    DeliverCalls, RandomReservedVersion, listenerVars, matchVars, buildVars >>

(***************************************************************************)
(* A first receive call, the worker, and a second receive call with the    *)
(* answers of the clients to the Retry packets sent.                       *)
(***************************************************************************)

\* How many datagrams the first and the second receive call hold at most.
MaxFirstChain == 2

MaxReplayChain == 1

WorkerStatelessOperation(c) == WorkerStatelessOperationOf(c, RandomBytes)

InitialXInvalid ==
    [Packet(TRUE, TRUE, CidX, "DRAFT_23", "INITIAL", 1200, "r3")
        EXCEPT !.ValidLongHeader = FALSE]

UnknownVersionX1 == Packet(TRUE, TRUE, CidX, "UNKNOWN", "INITIAL", 1200, "r1")

FirstPackets ==
    { InitialX, InitialXInvalid, ZeroRttX, UnknownVersionX, UnknownVersionX1,
      ShortY }

OtherRemote(r) == IF r = "r1" THEN "r2" ELSE "r1"

\* The initial packet a client sends in answer to the Retry retry: to the
\* connection ID the server chose, with the token of the Retry.
Replay(retry) ==
    [Packet(TRUE, TRUE, retry.SourceCID, retry.Version, "INITIAL", 1200,
            retry.RemoteAddress)
        EXCEPT !.Token = retry.Token]

\* The answers that are not the one the Retry asked for: from another remote
\* address, to the original connection ID, with a token that is cut short,
\* with a token encrypted under another key.
BadReplays(retry) ==
    { [Replay(retry) EXCEPT !.RemoteAddress = OtherRemote(retry.RemoteAddress)],
      [Replay(retry) EXCEPT !.DestCID = retry.OrigDestCID],
      [Replay(retry) EXCEPT !.Token.Length = SizeofRetryTokenContents - 1],
      [Replay(retry) EXCEPT !.Token.Key = "another key"] }

\* An initial packet with a token that decrypts to contents whose
\* OrigConnIdLength is beyond the array.
InitialLongOrigConnId ==
    [Packet(TRUE, TRUE, CidS1, "DRAFT_23", "INITIAL", 1200, "r1")
        EXCEPT !.Token = RetryToken(
                             SizeofRetryTokenContents, "StatelessRetryKey",
                             RetryIv(CidS1), "r1", SizeofOrigConnId + 1, CidX)]

RetriesSent ==
    { Sent[i].Packet : i \in { j \in 1..Len(Sent) : Sent[j].Packet.Type = "RETRY" } }

ReplayPackets ==
    { InitialLongOrigConnId }
    \cup { Replay(retry) : retry \in RetriesSent }
    \cup UNION { BadReplays(retry) : retry \in RetriesSent }

ReceiveFirst == ReceiveDatagramOf("t1", FirstPackets, MaxFirstChain)

ReceiveReplay ==
    /\ rpc["t1"] = "done"
    /\ ReceiveDatagramOf("t2", ReplayPackets, MaxReplayChain)

\* A shared binding without connections, with or without a listener, with
\* the handshake memory below or at its limit.
InitResponses ==
    /\ InitBinding(Threads)
    /\ Exclusive = FALSE
    /\ Listeners \in { << >>, OneListener }
    /\ RandomReservedVersion \in { ReservedVersionOf(r) : r \in RandomWords }
    /\ conn = << >>
    /\ Lookup = LookupOf(conn)
    /\ CurrentHandshakeMemoryUsage \in
           { CurrentMemoryLimit - QUIC_CONN_HANDSHAKE_MEMORY_USAGE,
             CurrentMemoryLimit }

\* The worker runs the operations of the first call when that call is over.
WorkerAfterFirst(c) == rpc["t1"] = "done" /\ WorkerStatelessOperation(c)

NextResponses ==
    \/ ReceiveFirst
    \/ ReceiveReplay
    \/ \E t \in Threads : DeliverMiss(t)
    \/ \E t \in Threads : ReceiveEnd(t)
    \/ \E c \in 1..MaxCtx : WorkerAfterFirst(c)

SpecResponses == InitResponses /\ [][NextResponses]_vars

(***************************************************************************)
(* One short-header datagram of any length, and the stateless reset the    *)
(* worker answers it with, for any random byte.                            *)
(***************************************************************************)

\* The longest datagram received.
MaxResetInbound == 300

\* The shortest short header: the first byte and the connection ID.
MinShortHeaderLength == 1 + MSQUIC_CONNECTION_ID_LENGTH

ShortOfLength(n) == Packet(TRUE, FALSE, CidX, "NONE", "SHORT", n, "r2")

ResetPackets ==
    { ShortOfLength(n) : n \in MinShortHeaderLength..MaxResetInbound }

ReceiveShort == ReceiveDatagramOf("t1", ResetPackets, 1)

WorkerStatelessReset(c) == WorkerStatelessOperationOf(c, Uint8)

InitReset ==
    /\ InitBinding({"t1"})
    /\ Exclusive = FALSE
    /\ Listeners \in { << >>, OneListener }
    /\ RandomReservedVersion = ReservedVersionOf(<< 0, 0, 0, 0 >>)
    /\ conn = << >>
    /\ Lookup = LookupOf(conn)
    /\ CurrentHandshakeMemoryUsage = 0

NextReset ==
    \/ ReceiveShort
    \/ DeliverMiss("t1")
    \/ ReceiveEnd("t1")
    \/ \E c \in 1..MaxCtx : WorkerStatelessReset(c)

SpecReset == InitReset /\ [][NextReset]_vars

(***************************************************************************)
(* Properties of the stateless-operation table.                            *)
(***************************************************************************)

\* Thread t runs the locked part of create in this step.
CreateStep(t) == spc[t] = "create" /\ spc'[t] = "idle"

\* The step returned a context.
CreateReturnedContext == Len(ctx') > Len(ctx)

\* The structures are, after the step, the value st.
TrackingBecomes(st) ==
    /\ ctx' = st.ctx
    /\ StatelessOperList' = st.list
    /\ StatelessOperTable' = st.table
    /\ StatelessOperCount' = st.count

\* The contexts that were created and are not yet released.
Outstanding ==
    { c \in 1..Len(ctx) : ctx[c].FreeCount = 0 /\ ~ctx[c].IsProcessed }

\* Every context in the list is younger than the expiration time now.
AllYoungNow ==
    \A c \in SeqToSet(StatelessOperList) :
        TimeLess32(QuicTimeDiff32(ctx[c].CreationTimeMs, clock),
                   QUIC_STATELESS_OPERATION_EXPIRATION_MS)

\* C5: the stateless-operation count never exceeds
\* QUIC_MAX_BINDING_STATELESS_OPERATIONS in any interleaving of create and
\* release; a create returns a context only when the count after ageing is
\* below the limit, and when it is not, the create returns nothing and the
\* structures are as ageing left them (nothing is allocated).
C5_CountNeverExceedsMax ==
    /\ [](StatelessOperCount <= QUIC_MAX_BINDING_STATELESS_OPERATIONS)
    /\ [][ \A t \in Threads : CreateStep(t) =>
             LET aged == AgeOut(Tracking, sTimeMs[t])
             IN  /\ CreateReturnedContext =>
                        aged.count < QUIC_MAX_BINDING_STATELESS_OPERATIONS
                 /\ aged.count >= QUIC_MAX_BINDING_STATELESS_OPERATIONS =>
                        TrackingBecomes(aged) ]_vars

\* The table is full of contexts that a create about to run will find young.
C5_Saturated ==
    /\ StatelessOperCount = QUIC_MAX_BINDING_STATELESS_OPERATIONS
    /\ \E t \in Threads :
        /\ spc[t] = "create"
        /\ \A c \in SeqToSet(StatelessOperList) : AgeOutStops(ctx[c], sTimeMs[t])

\* No two contexts in the table have the same remote address.
NoDuplicateRemotes ==
    \A c1, c2 \in TableEntries(StatelessOperTable) :
        c1 # c2 => ~QuicAddrCompare(ctx[c1].RemoteAddress, ctx[c2].RemoteAddress)

\* C6: the table never holds two contexts with equal remote addresses, also
\* under concurrent creates; a create returns a context only for a remote
\* that has no entry in the table as ageing left it, and a create that
\* returns no context leaves table, list and count as ageing left them.
C6_NoDuplicateRemotes ==
    /\ []NoDuplicateRemotes
    /\ [][ \A t \in Threads : CreateStep(t) =>
             LET aged == AgeOut(Tracking, sTimeMs[t])
             IN  /\ CreateReturnedContext =>
                        ~AlreadyInTable(aged, ctx'[Len(ctx')].RemoteAddress)
                 /\ ~CreateReturnedContext => TrackingBecomes(aged) ]_vars

\* Two contexts of different remotes share a bucket while a create is to run.
C6_SharedBucket ==
    /\ \E h \in HashBuckets : Len(StatelessOperTable[h]) > 1
    /\ \E t \in Threads : spc[t] = "create"

\* C6 as stated: a create for a remote that has an entry in the table at the
\* call returns no context.
C6_EntryAtCallRejects ==
    [][ \A t \in Threads : CreateStep(t) /\ CreateReturnedContext =>
          ~AlreadyInTable(Tracking, ctx'[Len(ctx')].RemoteAddress) ]_vars

\* C7: for every remote address, at most one context that is not yet
\* released is tracked, that is, not yet marked expired.
C7_OneTrackedOutstandingPerRemote ==
    \A r \in Remotes :
        Cardinality({ c \in Outstanding :
                        ~ctx[c].IsExpired /\ ctx[c].RemoteAddress = r }) <= 1

\* A context expired before it was released, and a second context of the
\* same remote was created since.
C7_ExpiredBeforeProcessed ==
    \E c1, c2 \in Outstanding :
        /\ ctx[c1].IsExpired
        /\ ~ctx[c2].IsExpired
        /\ ctx[c1].RemoteAddress = ctx[c2].RemoteAddress

\* C7 as stated: for every remote address, at most one context has been
\* created and not yet released.
C7_OneOutstandingPerRemote ==
    \A r \in Remotes :
        Cardinality({ c \in Outstanding : ctx[c].RemoteAddress = r }) <= 1

\* C8: while the table holds QUIC_MAX_BINDING_STATELESS_OPERATIONS contexts
\* that are all younger than the expiration time, a create returns no
\* context.
C8_SaturatedAndYoungRejects ==
    [][ \A t \in Threads :
          ( /\ CreateStep(t)
            /\ StatelessOperCount = QUIC_MAX_BINDING_STATELESS_OPERATIONS
            /\ AllYoungNow )
          => ~CreateReturnedContext ]_vars

(***************************************************************************)
(* Properties of the receive path.                                         *)
(***************************************************************************)

\* The datagrams of the chains that start at the given heads, one after the
\* other.
RECURSIVE ChainsOf(_, _)
ChainsOf(N, heads) ==
    IF heads = << >> THEN << >>
    ELSE Chain(N, Head(heads)) \o ChainsOf(N, Tail(heads))

\* The heads of the chains queued on the given connections.
RECURSIVE QueuedHeads(_)
QueuedHeads(cs) ==
    IF cs = << >> THEN << >>
    ELSE [ i \in 1..Len(Head(cs).RecvQueue) |-> Head(cs).RecvQueue[i].Chain ]
             \o QueuedHeads(Tail(cs))

ReturnedHeads == [ i \in 1..Len(Returned) |-> Returned[i].Chain ]

ContextHeads ==
    SelectSeq([ i \in 1..Len(ctx) |-> ctx[i].Datagram ], LAMBDA h : h # NULL)

\* Every place a datagram can be in, with the datagrams found there.
Places ==
    ChainsOf(NextPtr, ReturnedHeads \o QueuedHeads(conn) \o ContextHeads)

Occurrences(s, x) == Cardinality({ i \in 1..Len(s) : s[i] = x })

\* The datagrams of the input chain of thread t.
DatagramsOf(t) == { DatagramId(t, n) : n \in 1..local[t].Detached }

\* The chains QuicBindingDeliverPackets was called with, those of the calls
\* that have not returned included.
DeliveredChains ==
    { DeliverCalls[i].Chain : i \in 1..Len(DeliverCalls) }
    \cup { Chain(NextPtr, local[t].ConnectionChain) :
             t \in { u \in Threads : rpc[u] \in { "miss", "last miss", "crashed" } } }

IsHandshakeDatagram(d) == QuicPacketIsHandshake(dg[d])

\* C1: when QuicBindingReceive has returned, every datagram of its input
\* chain is in exactly one place: in the release chain that was returned
\* to the datapath, in a chain queued on one connection, or in the chain a
\* stateless context holds; and the call returned at most one release chain.
C1_DatagramConservation ==
    \A t \in Threads :
        rpc[t] = "done" =>
            /\ \A d \in DatagramsOf(t) : Occurrences(Places, d) = 1
            /\ Cardinality({ i \in 1..Len(Returned) : Returned[i].t = t }) <= 1

\* A receive call has returned with a datagram in each of the three places.
C1_AllThreePlaces ==
    /\ rpc["t1"] = "done"
    /\ Returned # << >>
    /\ QueuedHeads(conn) # << >>
    /\ ContextHeads # << >>

\* C2: on a shared binding every chain passed to QuicBindingDeliverPackets
\* holds only datagrams whose destination CID has the length and the bytes
\* of that of its head, and no handshake datagram of it comes after a
\* datagram that is not a handshake datagram.
C2_ChainSplit ==
    ~Exclusive =>
        \A c \in DeliveredChains :
            /\ \A j \in 1..Len(c) :
                /\ Len(dg[c[j]].DestCID) = Len(dg[c[1]].DestCID)
                /\ dg[c[j]].DestCID = dg[c[1]].DestCID
            /\ \A j, k \in 1..Len(c) :
                (j < k /\ IsHandshakeDatagram(c[k])) => IsHandshakeDatagram(c[j])

\* On a shared binding a chain was delivered in which a handshake datagram
\* stands before a data datagram that arrived earlier.
C2_HandshakeMovedAhead ==
    /\ ~Exclusive
    /\ \E i \in 1..Len(DeliverCalls) :
        LET c == DeliverCalls[i].Chain
        IN  \E j, k \in 1..Len(c) :
                /\ j < k
                /\ c[k] < c[j]
                /\ IsHandshakeDatagram(c[j])
                /\ ~IsHandshakeDatagram(c[k])

\* The receive call for the chain ShortX, ShortY, ShortX has returned, on a
\* shared binding whose lookup holds a connection for each of the two CIDs.
InterleavedBatchDone ==
    /\ rpc["t1"] = "done"
    /\ ~Exclusive
    /\ local["t1"].Detached = 3
    /\ dg[1] = ShortX
    /\ dg[2] = ShortY
    /\ dg[3] = ShortX
    /\ Len(conn) = 2
    /\ Lookup[CidX] = 1
    /\ Lookup[CidY] = 2

\* C3: three short-header datagrams with destination CIDs X, Y, X in one
\* receive call, with connections cx and cy in the lookup, are delivered as
\* three chains in the order of arrival: the first X datagram to cx, the Y
\* datagram to cy, the second X datagram to cx; nothing is released.
C3_InterleavedBatchThreeChains ==
    InterleavedBatchDone =>
        /\ Len(DeliverCalls) = 3
        /\ \A i \in 1..3 :
            /\ DeliverCalls[i].Chain = << i >>
            /\ DeliverCalls[i].Length = 1
            /\ DeliverCalls[i].ok
        /\ DeliverCalls[1].Connection = 1
        /\ DeliverCalls[2].Connection = 2
        /\ DeliverCalls[3].Connection = 1
        /\ conn[1].RecvQueue = << [ Chain |-> 1, Length |-> 1 ],
                                  [ Chain |-> 3, Length |-> 1 ] >>
        /\ conn[2].RecvQueue = << [ Chain |-> 2, Length |-> 1 ] >>
        /\ Returned = << >>

\* The interleaved batch was received.
C3_InterleavedBatchReceived == InterleavedBatchDone

\* C3 as stated: the batch X, Y, X is delivered as exactly two chains, one
\* with both X datagrams to cx and one with the Y datagram to cy.
C3_InterleavedBatchTwoChains ==
    InterleavedBatchDone =>
        /\ Len(DeliverCalls) = 2
        /\ \E i \in 1..Len(DeliverCalls) :
            /\ SeqToSet(DeliverCalls[i].Chain) = { 1, 3 }
            /\ DeliverCalls[i].Connection = 1
        /\ \E i \in 1..Len(DeliverCalls) :
            /\ DeliverCalls[i].Chain = << 2 >>
            /\ DeliverCalls[i].Connection = 2

\* C4: in every chain passed to QuicBindingDeliverPackets the handshake
\* datagrams stand in the order of their arrival and so do the data
\* datagrams, however the two classes were interleaved in the input.
C4_FifoWithinClass ==
    \A c \in DeliveredChains :
        \A j, k \in 1..Len(c) :
            (j < k /\ IsHandshakeDatagram(c[j]) = IsHandshakeDatagram(c[k]))
                => c[j] < c[k]

\* A chain of two handshake datagrams and a data datagram was delivered,
\* and the data datagram had arrived before the second handshake datagram.
C4_DataBetweenHandshakes ==
    \E i \in 1..Len(DeliverCalls) :
        LET c == DeliverCalls[i].Chain
        IN  /\ Len(c) = 3
            /\ IsHandshakeDatagram(c[1])
            /\ IsHandshakeDatagram(c[2])
            /\ ~IsHandshakeDatagram(c[3])
            /\ c[3] < c[2]

\* A step in which QuicBindingCreateConnection made a connection.
ConnectionMade == Len(conn') = Len(conn) + 1

\* A step in which QuicLookupAddSourceConnectionID found the CID of the new
\* connection in the lookup.
CollisionStep == ConnectionMade /\ Lookup[conn'[Len(conn')].CID] # NULL

\* A step in which QuicBindingCreateConnection failed after it had taken
\* the reference on the binding.
FailedAfterBindingRef ==
    /\ ConnectionMade
    /\ conn'[Len(conn')].Binding
    /\ Lookup'[conn'[Len(conn')].CID] # Len(conn')

\* C9: on a collision of the CID the chain is queued on the connection
\* that holds the CID and the delivery succeeds, the new connection does not
\* get into the lookup, and the backup operation and the flag
\* BackUpOperUsed of the existing connection are left as they were.
C9_CollisionLeavesExistingUntouched ==
    [][ CollisionStep =>
          LET existing == Lookup[conn'[Len(conn')].CID]
              call     == DeliverCalls'[Len(DeliverCalls')]
          IN  /\ Len(DeliverCalls') = Len(DeliverCalls) + 1
              /\ call.ok
              /\ call.Connection = existing
              /\ Len(conn'[existing].RecvQueue) =
                     Len(conn[existing].RecvQueue) + 1
              /\ Lookup' = Lookup
              /\ conn'[existing].BackUpOperUsed = conn[existing].BackUpOperUsed
              /\ conn'[existing].OperQueue = conn[existing].OperQueue
              /\ \A i \in 1..Len(conn') :
                    \A j \in 1..Len(conn'[i].OperQueue) :
                        conn'[i].OperQueue[j].Owner # existing ]_vars

\* C10: when QuicBindingCreateConnection fails after it took the reference
\* on the binding, the new connection gets its own backup operation queued,
\* a silent shutdown, and its own BackUpOperUsed set; no flag of another
\* connection changes, and no null pointer is dereferenced.
C10_UnwindUsesOwnBackupOper ==
    [][ FailedAfterBindingRef =>
          LET new == Len(conn')
          IN  /\ conn'[new].OperQueue = << BackUpOper(new) >>
              /\ conn'[new].BackUpOperUsed = 1
              /\ \A c \in 1..Len(conn) :
                    conn'[c].BackUpOperUsed = conn[c].BackUpOperUsed
              /\ ~NullDeref' ]_vars

(***************************************************************************)
(* One receive call on a shared or an exclusive binding, with datagrams of *)
(* every kind of header for each length of destination CID, and the worker.*)
(***************************************************************************)

\* How many datagrams the receive call holds at most.
MaxModeChain == 2

UnknownVersionSmall ==
    Packet(TRUE, TRUE, CidSmall, "UNKNOWN", "INITIAL", 1200, "r2")

UnknownVersionEmpty ==
    Packet(TRUE, TRUE, CidEmpty, "UNKNOWN", "INITIAL", 1200, "r2")

InitialSmall ==
    Packet(TRUE, TRUE, CidSmall, "DRAFT_23", "INITIAL", 1200, "r2")

ModePackets ==
    { ShortX, ShortSmallCid, ShortEmpty, InitialX, InitialSmall, InitialEmpty,
      UnknownVersionX, UnknownVersionSmall, UnknownVersionEmpty }

ReceiveAnyCidLength == ReceiveDatagramOf("t1", ModePackets, MaxModeChain)

\* An exclusive binding is that of a client and has no listener.
InitModes ==
    /\ InitBinding({"t1"})
    /\ Exclusive \in BOOLEAN
    /\ Listeners \in { << >>, OneListener }
    /\ Exclusive => Listeners = << >>
    /\ RandomReservedVersion = ReservedVersionOf(<< 0, 0, 0, 0 >>)
    /\ \E n \in 0..1 : conn = ExistingConnections(Exclusive, n)
    /\ Lookup = LookupOf(conn)
    /\ CurrentHandshakeMemoryUsage \in
           { CurrentMemoryLimit - QUIC_CONN_HANDSHAKE_MEMORY_USAGE,
             CurrentMemoryLimit }

NextModes ==
    \/ ReceiveAnyCidLength
    \/ DeliverMiss("t1")
    \/ ReceiveEnd("t1")
    \/ \E c \in 1..MaxCtx : WorkerStatelessOperation(c)

SpecModes == InitModes /\ [][NextModes]_vars

(***************************************************************************)
(* QuicBindingRegisterListener and QuicBindingUnregisterListener, called   *)
(* by two threads.                                                         *)
(***************************************************************************)

\* How many listeners are inserted at most.
MaxRegistrations == 3

\* A mutation of ListenerCompare: the walk ends at a listener of the same
\* family and kind with another IP.
ListenerCompareEndsAtOtherIp(New, Existing) ==
    LET NewFamily      == QuicAddrGetFamily(New.LocalAddress)
        ExistingFamily == QuicAddrGetFamily(Existing.LocalAddress)
    IN  IF NewFamily > ExistingFamily THEN "break"
        ELSE IF NewFamily # ExistingFamily THEN "continue"
        ELSE IF ~New.WildCard /\ Existing.WildCard THEN "break"
        ELSE IF New.WildCard # Existing.WildCard THEN "continue"
        ELSE IF /\ NewFamily # AF_UNSPEC
                /\ ~QuicAddrCompareIp(New.LocalAddress, Existing.LocalAddress)
        THEN "break"
        ELSE IF /\ New.AlpnLength = Existing.AlpnLength
                /\ SubSeq(New.Alpn, 1, New.AlpnLength)
                     = SubSeq(Existing.Alpn, 1, New.AlpnLength)
        THEN "match"
        ELSE "continue"

\* The body of the loop of QuicBindingRegisterListener for one listener of
\* the list: the walk ends before it, goes on, or ends with a match.
ListenerCompare(New, Existing) ==
    LET NewFamily      == QuicAddrGetFamily(New.LocalAddress)
        ExistingFamily == QuicAddrGetFamily(Existing.LocalAddress)
    IN  IF NewFamily > ExistingFamily THEN "break"
        ELSE IF NewFamily # ExistingFamily THEN "continue"
        ELSE IF ~New.WildCard /\ Existing.WildCard THEN "break"
        ELSE IF New.WildCard # Existing.WildCard THEN "continue"
        ELSE IF /\ NewFamily # AF_UNSPEC
                /\ ~QuicAddrCompareIp(New.LocalAddress, Existing.LocalAddress)
        THEN "continue"
        ELSE IF /\ New.AlpnLength = Existing.AlpnLength
                /\ SubSeq(New.Alpn, 1, New.AlpnLength)
                     = SubSeq(Existing.Alpn, 1, New.AlpnLength)
        THEN "match"
        ELSE "continue"

\* A mutation of ListenerInsert: the new listener goes to the tail.
ListenerInsertTail(list, Link, New) == Append(list, New)

\* The list with New linked in before position Link; Link is one past the
\* end when the walk came back to the head of the list.
ListenerInsert(list, Link, New) ==
    IF Link > Len(list) THEN Append(list, New)
    ELSE SubSeq(list, 1, Link - 1) \o << New >> \o SubSeq(list, Link, Len(list))

\* The loop of QuicBindingRegisterListener from position Link on: where it
\* ends and AddNewListener.
RECURSIVE RegisterWalk(_, _, _)
RegisterWalk(list, New, Link) ==
    IF Link > Len(list) THEN [ Link |-> Link, AddNewListener |-> TRUE ]
    ELSE LET c == ListenerCompare(New, list[Link])
         IN  IF c = "break" THEN [ Link |-> Link, AddNewListener |-> TRUE ]
             ELSE IF c = "match"
             THEN [ Link |-> Link, AddNewListener |-> FALSE ]
             ELSE RegisterWalk(list, New, Link + 1)

\* QuicListEntryRemove of the listener with the given Id.
ListenerRemove(list, id) == SelectSeq(list, LAMBDA l : l.Id # id)

\* A mutation of QuicListIsEmpty: a list of one entry counts as empty.
ListHasAtMostOneEntry(list) == Len(list) <= 1

\* QuicListIsEmpty of the list of listeners.
QuicListIsEmpty(list) == list = << >>

\* A call of QuicBindingRegisterListener for the listener is under way.
Registering(id) ==
    \E t \in Threads : lpc[t].pc # "idle" /\ lpc[t].NewListener = id

\* QuicBindingRegisterListener up to the release of the lock.
RegisterListenerLocked(t, New) ==
    /\ lpc[t].pc = "idle"
    /\ ~Registering(New.Id)
    /\ LET w == RegisterWalk(Listeners, New, 1)
       IN  /\ w.AddNewListener => Len(Registered) < MaxRegistrations
           /\ Listeners' = IF w.AddNewListener
                           THEN ListenerInsert(Listeners, w.Link, New)
                           ELSE Listeners
           /\ Registered' = IF w.AddNewListener
                            THEN Append(Registered, New.Id)
                            ELSE Registered
           /\ UNCHANGED MaximizePartitioning
           /\ lpc' = [lpc EXCEPT ![t] =
                        [ pc             |-> "unlocked",
                          NewListener    |-> New.Id,
                          AddNewListener |-> w.AddNewListener,
                          MaximizeLookup |-> w.AddNewListener
                                             /\ QuicListIsEmpty(Listeners) ]]
    /\ UNCHANGED << statelessVars, Exclusive, Lookup, conn,
                    CurrentHandshakeMemoryUsage, HandshakeConnections,
                    NullDeref, dg, NextPtr, rpc, local, faults, Returned,
                    DeliverCalls, workerVars, matchVars, buildVars >>

\* The rest of QuicBindingRegisterListener: QuicLookupMaximizePartitioning
\* for the first listener of the list, which succeeds or fails, and the
\* return.
RegisterListenerReturn(t) ==
    /\ lpc[t].pc = "unlocked"
    /\ \E maximized \in BOOLEAN :
        LET failed == lpc[t].MaximizeLookup /\ ~maximized
        IN  /\ lpc[t].MaximizeLookup \/ maximized
            /\ Listeners' = IF failed
                            THEN ListenerRemove(Listeners, lpc[t].NewListener)
                            ELSE Listeners
            /\ lpc' = [lpc EXCEPT ![t] =
                         [IdleRegister EXCEPT
                            !.AddNewListener = lpc[t].AddNewListener /\ ~failed]]
            /\ MaximizePartitioning' =
                   (MaximizePartitioning \/ (lpc[t].MaximizeLookup /\ maximized))
    /\ UNCHANGED << statelessVars, Exclusive, Lookup, conn,
                    CurrentHandshakeMemoryUsage, HandshakeConnections,
                    NullDeref, dg, NextPtr, rpc, local, faults, Returned,
                    DeliverCalls, workerVars, Registered, matchVars, buildVars >>

\* QuicBindingUnregisterListener for a listener whose registration returned
\* TRUE.
UnregisterListener(id) ==
    /\ \E i \in 1..Len(Listeners) : Listeners[i].Id = id
    /\ ~Registering(id)
    /\ Listeners' = ListenerRemove(Listeners, id)
    /\ UNCHANGED << statelessVars, Exclusive, Lookup, conn,
                    CurrentHandshakeMemoryUsage, HandshakeConnections,
                    NullDeref, dg, NextPtr, rpc, local, faults, Returned,
                    DeliverCalls, workerVars, listenerVars, matchVars, buildVars >>

InitListeners ==
    /\ InitBinding({})
    /\ Exclusive = FALSE
    /\ Listeners = << >>
    /\ RandomReservedVersion = ReservedVersionOf(<< 0, 0, 0, 0 >>)
    /\ conn = << >>
    /\ Lookup = LookupOf(conn)
    /\ CurrentHandshakeMemoryUsage = 0

NextListeners ==
    \/ \E t \in Threads : \E New \in ListenerObjects :
           RegisterListenerLocked(t, New)
    \/ \E t \in Threads : RegisterListenerReturn(t)
    \/ \E l \in ListenerObjects : UnregisterListener(l.Id)

SpecListeners == InitListeners /\ [][NextListeners]_vars

(***************************************************************************)
(* QuicBindingGetListener for a new connection, while listeners are torn   *)
(* down.                                                                   *)
(***************************************************************************)

\* How many calls of QuicBindingGetListener one behaviour holds.
MaxMatches == 1

\* How many listeners are registered when the calls start, at most.
MaxListed == 3

\* An ALPN list on the wire: each identifier after one byte with its length.
RECURSIVE AlpnListOf(_)
AlpnListOf(alpns) ==
    IF alpns = << >> THEN << >>
    ELSE << Len(Head(alpns)) >> \o Head(alpns) \o AlpnListOf(Tail(alpns))

\* QUIC_NEW_CONNECTION_INFO: the local address of the packet and the ALPN
\* list of the client.  Alpns is the list before its encoding.
NewConnectionInfo(family, ip, alpns) ==
    [ LocalAddress   |-> [ Family |-> family, Ip |-> ip ],
      Alpns          |-> alpns,
      AlpnList       |-> AlpnListOf(alpns),
      AlpnListLength |-> Len(AlpnListOf(alpns)) ]

ConnectionInfos ==
    { NewConnectionInfo(a[1], a[2], alpns) :
        a \in { << AF_INET, "10.0.0.1" >>, << AF_INET, "10.0.0.2" >>,
                << AF_INET6, "2001:db8::1" >> },
        alpns \in { << AlpnH3 >>, << AlpnH2, AlpnH3 >>,
                    << AlpnH3Draft, AlpnH3 >> } }

\* A mutation of ListenerAddressMatches: the wildcard flag is not read.
ListenerAddressEqual(Existing, Addr) ==
    IF QuicAddrGetFamily(Existing.LocalAddress) # AF_UNSPEC
    THEN ~( \/ QuicAddrGetFamily(Addr) # QuicAddrGetFamily(Existing.LocalAddress)
            \/ ~QuicAddrCompareIp(Addr, Existing.LocalAddress) )
    ELSE TRUE

\* The listener is not passed over with "No IP match".
ListenerAddressMatches(Existing, Addr) ==
    IF QuicAddrGetFamily(Existing.LocalAddress) # AF_UNSPEC
    THEN ~( \/ QuicAddrGetFamily(Addr) # QuicAddrGetFamily(Existing.LocalAddress)
            \/ ( /\ ~Existing.WildCard
                 /\ ~QuicAddrCompareIp(Addr, Existing.LocalAddress) ) )
    ELSE TRUE

\* The inner loop of QuicBindingGetListener from position Link on, for the
\* identifier of the given length at the head of AlpnList: the position of
\* the first listener it stops at, or 0.
RECURSIVE ScanListeners(_, _, _, _, _)
ScanListeners(list, Link, Addr, Length, AlpnList) ==
    IF Link > Len(list) THEN 0
    ELSE IF /\ ListenerAddressMatches(list[Link], Addr)
            /\ Length = list[Link].AlpnLength
            /\ SubSeq(AlpnList, 1, Length) = SubSeq(list[Link].Alpn, 1, Length)
    THEN Link
    ELSE ScanListeners(list, Link + 1, Addr, Length, AlpnList)

\* The outer loop of QuicBindingGetListener: the position of the listener at
\* which the search goes to Done, or 0.
RECURSIVE FirstCandidate(_, _, _)
FirstCandidate(list, Addr, AlpnList) ==
    IF AlpnList = << >> THEN 0
    ELSE LET Length == Head(AlpnList)
             rest   == Tail(AlpnList)
             Link   == ScanListeners(list, 1, Addr, Length, rest)
         IN  IF Link # 0 THEN Link
             ELSE FirstCandidate(list, Addr,
                                 SubSeq(rest, Length + 1, Len(rest)))

\* QuicRundownAcquire: a reference is taken unless the rundown has begun.
QuicRundownAcquire(rundown, id) ==
    [ ok      |-> rundown[id].Active,
      rundown |-> IF rundown[id].Active
                  THEN [rundown EXCEPT ![id].Refs = @ + 1]
                  ELSE rundown ]

\* A mutation of QuicBindingGetListener: a candidate whose rundown cannot be
\* acquired is passed over and the search goes on.
RECURSIVE GetListenerSkipping(_, _, _)
GetListenerSkipping(list, rundown, Info) ==
    LET Link == FirstCandidate(list, Info.LocalAddress, Info.AlpnList)
    IN  IF Link = 0 THEN [ Listener |-> NULL, rundown |-> rundown ]
        ELSE IF rundown[list[Link].Id].Active
        THEN [ Listener |-> list[Link].Id,
               rundown  |-> QuicRundownAcquire(rundown, list[Link].Id).rundown ]
        ELSE GetListenerSkipping(
                 SelectSeq(list, LAMBDA l : l.Id # list[Link].Id),
                 rundown, Info)

\* QuicBindingGetListener: the listener returned (NULL for none) and the
\* rundowns after the call.
QuicBindingGetListener(list, rundown, Info) ==
    LET Link == FirstCandidate(list, Info.LocalAddress, Info.AlpnList)
    IN  IF Link = 0 THEN [ Listener |-> NULL, rundown |-> rundown ]
        ELSE LET a == QuicRundownAcquire(rundown, list[Link].Id)
             IN  [ Listener |-> IF a.ok THEN list[Link].Id ELSE NULL,
                   rundown  |-> a.rundown ]

\* A call of QuicBindingGetListener.
GetListener(Info) ==
    /\ Len(Matches) < MaxMatches
    /\ LET res == QuicBindingGetListener(Listeners, Rundown, Info)
       IN  /\ Rundown' = res.rundown
           /\ Matches' = Append(Matches,
                                [ Info |-> Info, Listener |-> res.Listener ])
    /\ UNCHANGED << statelessVars, receiveVars, workerVars, listenerVars,
                    buildVars >>

\* The owner of a registered listener begins to tear it down: its rundown
\* admits no new reference.
ListenerRundownBegin(id) ==
    /\ \E i \in 1..Len(Listeners) : Listeners[i].Id = id
    /\ Rundown[id].Active
    /\ Rundown' = [Rundown EXCEPT ![id].Active = FALSE]
    /\ UNCHANGED << statelessVars, receiveVars, workerVars, listenerVars,
                    Matches, buildVars >>

\* The list after the registration of the listeners with the given Ids, in
\* that order.
RECURSIVE RegisterAll(_)
RegisterAll(ids) ==
    IF ids = << >> THEN << >>
    ELSE LET list == RegisterAll(SubSeq(ids, 1, Len(ids) - 1))
             New  == ListenerOf(ids[Len(ids)])
             w    == RegisterWalk(list, New, 1)
         IN  IF w.AddNewListener THEN ListenerInsert(list, w.Link, New)
             ELSE list

\* The orders in which up to MaxListed listeners were registered.
RegistrationOrders ==
    { ids \in UNION { [1..n -> { l.Id : l \in ListenerObjects }] :
                        n \in 0..MaxListed } :
        \A i, j \in 1..Len(ids) : i < j => ids[i] < ids[j] }

InitMatch ==
    /\ InitBinding({})
    /\ Exclusive = FALSE
    /\ \E ids \in RegistrationOrders : Listeners = RegisterAll(ids)
    /\ RandomReservedVersion = ReservedVersionOf(<< 0, 0, 0, 0 >>)
    /\ conn = << >>
    /\ Lookup = LookupOf(conn)
    /\ CurrentHandshakeMemoryUsage = 0

NextMatch ==
    \/ \E Info \in ConnectionInfos : GetListener(Info)
    \/ \E l \in ListenerObjects : ListenerRundownBegin(l.Id)

SpecMatch == InitMatch /\ [][NextMatch]_vars

(***************************************************************************)
(* Properties of retry gating.                                             *)
(***************************************************************************)

\* Thread t takes the step of QuicBindingDeliverPackets that follows a
\* lookup without result.
DeliverMissStep(t) ==
    /\ rpc[t] \in { "miss", "last miss" }
    /\ rpc'[t] \notin { "miss", "last miss" }

\* The head of the chain thread t delivers, and its packet.
HeadOf(t) == local[t].ConnectionChain

HeadPacket(t) == dg[HeadOf(t)]

\* The step delivers a chain headed by an initial packet that matches no
\* connection while a listener is registered.
InitialMissStep(t) ==
    /\ DeliverMissStep(t)
    /\ HeadPacket(t).IsLongHeader
    /\ HeadPacket(t).Type = "INITIAL"
    /\ QuicBindingHasListenerRegistered

RetryGatingActive == CurrentHandshakeMemoryUsage >= CurrentMemoryLimit

FaultInjected == faults' # faults

\* The step has created a connection for the chain of thread t: it is in the
\* lookup under the destination CID and the chain is queued on it.
ConnectionCreatedFor(t) ==
    /\ Len(conn') = Len(conn) + 1
    /\ Lookup'[HeadPacket(t).DestCID] = Len(conn')
    /\ \E i \in 1..Len(conn'[Len(conn')].RecvQueue) :
           conn'[Len(conn')].RecvQueue[i].Chain = HeadOf(t)

NoConnectionCreated == conn' = conn /\ Lookup' = Lookup

\* The step has queued a Retry operation that holds the chain of thread t.
RetryQueuedFor(t) ==
    /\ Len(ctx') = Len(ctx) + 1
    /\ ctx'[Len(ctx')].OperType = "RETRY"
    /\ ctx'[Len(ctx')].Datagram = HeadOf(t)

NoOperationQueued ==
    \A c \in 1..Len(ctx') : c > Len(ctx) => ctx'[c].OperType = "NONE"

\* The table of stateless operations refuses an operation for remote r now.
TableRefuses(r) ==
    \/ MaxOperationsReached(AgeOut(Tracking, clock).count)
    \/ AlreadyInTable(AgeOut(Tracking, clock), r)

\* The packet is the answer a Retry that was sent asked for, and the token
\* of that Retry was encrypted.
MintedReplay(p) ==
    \E retry \in RetriesSent :
        p = Replay(retry) /\ retry.Token.Key = "StatelessRetryKey"

NoTokenPacket(p) == p.ValidLongHeader /\ p.Token.Length = 0

\* C11 (as corrected): for an initial packet that matches no connection while
\* a listener is registered, (a) below the memory limit no Retry is queued,
\* valid_token stays false and create_connection runs, which creates the
\* connection unless a resource fails; (b) at or above the limit and without
\* a token no connection is created, and the Retry operation is queued
\* exactly when no resource fails and the table of stateless operations does
\* not refuse the remote; (c) at or above the limit and with the token of a
\* Retry replayed from the same remote to the Retry's new CID, valid_token
\* is set, no Retry is queued and create_connection runs.
C11_RetryGating ==
    [][ \A t \in Threads : InitialMissStep(t) =>
          /\ ~RetryGatingActive =>
                /\ NoOperationQueued
                /\ ~dg'[HeadOf(t)].ValidToken
                /\ ~FaultInjected => ConnectionCreatedFor(t)
          /\ RetryGatingActive /\ NoTokenPacket(HeadPacket(t)) =>
                /\ NoConnectionCreated
                /\ ~dg'[HeadOf(t)].ValidToken
                /\ RetryQueuedFor(t) <=>
                       /\ ~FaultInjected
                       /\ ~TableRefuses(HeadPacket(t).RemoteAddress)
                /\ ~RetryQueuedFor(t) => NoOperationQueued
          /\ RetryGatingActive /\ MintedReplay(HeadPacket(t)) =>
                /\ dg'[HeadOf(t)].ValidToken
                /\ NoOperationQueued
                /\ ~FaultInjected => ConnectionCreatedFor(t)
      ]_vars

\* A Retry was sent, and the answer to it was accepted: its datagram carries
\* a valid token and is queued on a connection of its own.
C11_ReplayAccepted ==
    \E d \in DOMAIN dg :
        /\ dg[d].ValidToken
        /\ dg[d].Token \in { retry.Token : retry \in RetriesSent }
        /\ Lookup[dg[d].DestCID] # NULL
        /\ \E i \in 1..Len(conn[Lookup[dg[d].DestCID]].RecvQueue) :
               conn[Lookup[dg[d].DestCID]].RecvQueue[i].Chain = d

\* C11 (as stated): while no resource fails, under gating an initial packet
\* without token always has a Retry operation queued, and in the two other
\* cases a connection is created.
C11_RetryAlwaysQueued ==
    [][ \A t \in Threads : InitialMissStep(t) /\ ~FaultInjected =>
          /\ ~RetryGatingActive =>
                /\ NoOperationQueued
                /\ ~dg'[HeadOf(t)].ValidToken
                /\ ConnectionCreatedFor(t)
          /\ RetryGatingActive /\ NoTokenPacket(HeadPacket(t)) =>
                /\ RetryQueuedFor(t)
                /\ NoConnectionCreated
          /\ RetryGatingActive /\ MintedReplay(HeadPacket(t)) =>
                /\ dg'[HeadOf(t)].ValidToken
                /\ NoOperationQueued
                /\ ConnectionCreatedFor(t)
      ]_vars

\* The token of packet p fails one of the four checks.
TokenRejected(p) ==
    \/ p.Token.Length # SizeofRetryTokenContents
    \/ ~QuicRetryTokenDecrypt(p.DestCID, p.Token)
    \/ p.Token.OrigConnIdLength > SizeofOrigConnId
    \/ p.Token.RemoteAddress # p.RemoteAddress

\* The chain of thread t was dropped: the call returned FALSE and its head is
\* on the release chain.
ChainDropped(t) ==
    /\ Len(DeliverCalls') = Len(DeliverCalls) + 1
    /\ ~DeliverCalls'[Len(DeliverCalls')].ok
    /\ HeadOf(t) \in SeqToSet(Chain(NextPtr', local'[t].ReleaseChain))

\* C12: under retry gating an initial packet whose token has the wrong
\* length, does not decrypt, holds an orig_cid_length beyond the capacity or
\* names another remote address than the datagram's is dropped: no
\* connection is created, no operation is queued, valid_token stays false.
C12_BadTokenDropped ==
    [][ \A t \in Threads :
          /\ InitialMissStep(t)
          /\ RetryGatingActive
          /\ HeadPacket(t).ValidLongHeader
          /\ HeadPacket(t).Token.Length # 0
          /\ TokenRejected(HeadPacket(t))
          => /\ NoConnectionCreated
             /\ ctx' = ctx
             /\ ~dg'[HeadOf(t)].ValidToken
             /\ ChainDropped(t)
      ]_vars

\* The token of a Retry came back from another remote address, to the CID
\* the Retry named, and its datagram was returned to the datapath.
C12_ReplayFromOtherRemoteDropped ==
    \E d \in DOMAIN dg :
        /\ dg[d].Token \in { retry.Token : retry \in RetriesSent }
        /\ QuicRetryTokenDecrypt(dg[d].DestCID, dg[d].Token)
        /\ dg[d].Token.RemoteAddress # dg[d].RemoteAddress
        /\ ~dg[d].ValidToken
        /\ \E i \in 1..Len(Returned) : Returned[i].Chain = d
        /\ Lookup[dg[d].DestCID] = NULL

(***************************************************************************)
(* Properties of the admission of stateless resets and of preprocessing.   *)
(***************************************************************************)

\* The step has queued a stateless reset operation.
NewResetContext ==
    \E c \in 1..Len(ctx') : c > Len(ctx) /\ ctx'[c].OperType = "STATELESS_RESET"

\* The chain of thread t may be answered with a stateless reset.
ResetAdmissible(t) ==
    /\ ~Exclusive
    /\ QuicLookupFindConnection(Lookup, HeadPacket(t).DestCID) = NULL
    /\ ~HeadPacket(t).IsLongHeader
    /\ HeadPacket(t).BufferLength > QUIC_MIN_STATELESS_RESET_PACKET_LENGTH

\* The call of QuicBindingDeliverPackets of this step returned FALSE.
DeliverReturnedFalse ==
    /\ Len(DeliverCalls') = Len(DeliverCalls) + 1
    /\ ~DeliverCalls'[Len(DeliverCalls')].ok

\* C13: a stateless reset operation is queued only by a delivery on a shared
\* binding that found no connection for a chain whose head is a short header
\* longer than QUIC_MIN_STATELESS_RESET_PACKET_LENGTH, and it holds that
\* head; a chain that goes to QuicBindingQueueStatelessReset without these
\* conditions gets FALSE and no stateless context.
C13_ResetAdmission ==
    [][ /\ NewResetContext =>
              \E t \in Threads :
                  /\ DeliverMissStep(t)
                  /\ ResetAdmissible(t)
                  /\ ctx'[Len(ctx')].Datagram = HeadOf(t)
        /\ \A t \in Threads :
              /\ DeliverMissStep(t)
              /\ ~QuicBindingShouldCreateConnection(HeadPacket(t))
              /\ ~ResetAdmissible(t)
              => ctx' = ctx /\ DeliverReturnedFalse
      ]_vars

\* A reset operation is queued for one chain, and the reset for a chain whose
\* head has exactly the minimum length was refused.
C13_ResetQueuedAndRefused ==
    /\ \E c \in 1..Len(ctx) :
           /\ ctx[c].OperType = "STATELESS_RESET"
           /\ ctx[c].Datagram # NULL
           /\ ~dg[ctx[c].Datagram].IsLongHeader
    /\ \E i \in 1..Len(DeliverCalls) :
           /\ ~DeliverCalls[i].ok
           /\ ~dg[DeliverCalls[i].Chain[1]].IsLongHeader
           /\ dg[DeliverCalls[i].Chain[1]].BufferLength
                  = QUIC_MIN_STATELESS_RESET_PACKET_LENGTH

\* Thread t takes a round of the loop: it detaches the next datagram.
ReceiveStep(t) == local'[t].Detached = local[t].Detached + 1

\* The datagram the round of thread t detaches, and its packet.
Received(t) == DatagramId(t, local'[t].Detached)

ReceivedPacket(t) == dg'[Received(t)]

\* A long header of a version the library does not speak, which passes the
\* checks before the version check.
UnsupportedVersion(p) ==
    /\ p.ValidInvariant
    /\ CidLengthAccepted(p)
    /\ p.IsLongHeader
    /\ \A i \in 1..Len(QuicSupportedVersionList) :
           QuicSupportedVersionList[i] # p.Version

\* The datagrams that are or were in a connection chain.
InConnectionChains ==
    UNION { SeqToSet(Chain(NextPtr, local[t].ConnectionChain)) : t \in Threads }
    \cup UNION { SeqToSet(DeliverCalls[i].Chain) : i \in 1..Len(DeliverCalls) }

\* After the step the datagram thread t received is on its release chain.
ReleasedBy(t) ==
    Received(t) \in SeqToSet(Chain(NextPtr', local'[t].ReleaseChain))

\* The step has queued a Version Negotiation operation that holds the
\* datagram thread t received, and nothing else.
VersionNegotiationQueuedFor(t) ==
    /\ Len(ctx') = Len(ctx) + 1
    /\ ctx'[Len(ctx')].OperType = "VERSION_NEGOTIATION"
    /\ ctx'[Len(ctx')].Datagram = Received(t)

\* C15: a long-header datagram of an unsupported version that passes the
\* invariant and CID-length checks is never in a connection chain; without a
\* listener it creates no stateless context and is released; with a listener
\* one Version Negotiation operation is attempted, which is queued when no
\* resource fails and the table does not refuse the remote, and the datagram
\* is released exactly when the operation was not queued.
C15_UnsupportedVersion ==
    /\ [](\A d \in DOMAIN dg :
             UnsupportedVersion(dg[d]) => d \notin InConnectionChains)
    /\ [][ \A t \in Threads :
             ReceiveStep(t) /\ UnsupportedVersion(ReceivedPacket(t)) =>
                /\ local'[t].ConnectionChain = local[t].ConnectionChain
                /\ DeliverCalls' = DeliverCalls
                /\ Listeners = << >> => ctx' = ctx /\ ReleasedBy(t)
                /\ Listeners # << >> =>
                      /\ ReleasedBy(t) <=> ~VersionNegotiationQueuedFor(t)
                      /\ ~VersionNegotiationQueuedFor(t) => NoOperationQueued
                      /\ VersionNegotiationQueuedFor(t) <=>
                             /\ ~FaultInjected
                             /\ ~TableRefuses(ReceivedPacket(t).RemoteAddress)
         ]_vars

\* A Version Negotiation operation holds one datagram of an unsupported
\* version, and a second such datagram, whose operation the table refused,
\* is on the release chain.
C15_QueuedAndReleased ==
    \E c \in 1..Len(ctx) : \E d \in DOMAIN dg :
        /\ ctx[c].OperType = "VERSION_NEGOTIATION"
        /\ ctx[c].Datagram # NULL
        /\ UnsupportedVersion(dg[ctx[c].Datagram])
        /\ d # ctx[c].Datagram
        /\ UnsupportedVersion(dg[d])
        /\ d \in SeqToSet(Chain(NextPtr, local["t1"].ReleaseChain))
        /\ faults = 0

(***************************************************************************)
(* Properties of the responses the worker sends.                           *)
(***************************************************************************)

\* The stateless resets sent, as indices of Sent.
ResetsSent ==
    { i \in 1..Len(Sent) : Sent[i].Packet.Type = "STATELESS_RESET" }

InboundLength(i) == dg[Sent[i].Datagram].BufferLength

\* The length the reset should have, in unbounded arithmetic.
ResetLengthExpected(i) ==
    LET drawn == (Sent[i].Random.Byte \div 32)
                     + QUIC_RECOMMENDED_STATELESS_RESET_PACKET_LENGTH
    IN  IF drawn >= InboundLength(i) THEN InboundLength(i) - 1 ELSE drawn

\* C14: for every length of the received datagram that
\* QuicBindingQueueStatelessReset admits and every random byte, the length L
\* of the stateless reset is at least QUIC_MIN_STATELESS_RESET_PACKET_LENGTH,
\* below the received length and at most the recommended length plus 7; the
\* uint8_t arithmetic gives the value of the unbounded arithmetic, and the
\* assertion on L holds.
C14_ResetLength ==
    \A i \in ResetsSent :
        /\ InboundLength(i) > QUIC_MIN_STATELESS_RESET_PACKET_LENGTH
        /\ Sent[i].Packet.Length >= QUIC_MIN_STATELESS_RESET_PACKET_LENGTH
        /\ Sent[i].Packet.Length < InboundLength(i)
        /\ Sent[i].Packet.Length
               <= QUIC_RECOMMENDED_STATELESS_RESET_PACKET_LENGTH + 7
        /\ Sent[i].Packet.Length = ResetLengthExpected(i)
        /\ ~Sent[i].AssertFailed

\* A reset was clamped to the minimum: the received datagram is one byte
\* longer than the minimum and the reset has the minimum length.
C14_ClampedToMinimum ==
    \E i \in ResetsSent :
        /\ InboundLength(i) = QUIC_MIN_STATELESS_RESET_PACKET_LENGTH + 1
        /\ Sent[i].Packet.Length = QUIC_MIN_STATELESS_RESET_PACKET_LENGTH

\* The Version Negotiation packets sent.
VersionNegotiationsSent ==
    { i \in 1..Len(Sent) : Sent[i].Packet.Type = "VERSION_NEGOTIATION" }

\* The fields a receiver reads from the bytes after the header of a Version
\* Negotiation packet: the destination CID, whose length the header gives,
\* one byte with the length of the source CID, the source CID, and the
\* versions, four bytes each.
ParsedVersionNegotiation(out) ==
    LET dl == out.DestCIDLength
        sl == out.Buffer[dl + 1]
    IN  [ DestCID   |-> SubSeq(out.Buffer, 1, dl),
          SourceCID |-> SubSeq(out.Buffer, dl + 2, dl + 1 + sl),
          Versions  |-> SubSeq(out.Buffer, dl + sl + 2, Len(out.Buffer)) ]

\* Two received packets hold the same bytes.
SameInbound(p, q) ==
    [p EXCEPT !.RemoteAddress = "r1"] = [q EXCEPT !.RemoteAddress = "r1"]

\* C16: a Version Negotiation packet sent goes to the remote of the packet it
\* answers, has the version 0, carries the source CID of that packet as its
\* destination CID and the destination CID of that packet as its source CID,
\* has the top bit of Unused clear, and lists the RandomReservedVersion of
\* the binding followed by the supported versions; two of them that answer
\* the same bytes differ at most in Unused and in the remote they go to.
C16_VersionNegotiationContent ==
    /\ \A i \in VersionNegotiationsSent :
        LET in  == dg[Sent[i].Datagram]
            out == Sent[i].Packet
            rd  == ParsedVersionNegotiation(out)
        IN  /\ out.IsLongHeader
            /\ out.Version = << 0, 0, 0, 0 >>
            /\ out.RemoteAddress = in.RemoteAddress
            /\ rd.DestCID = in.SourceCID
            /\ rd.SourceCID = in.DestCID
            /\ out.Unused \in 0..127
            /\ SubSeq(rd.Versions, 1, 4) = RandomReservedVersion
            /\ SubSeq(rd.Versions, 5, Len(rd.Versions)) =
                   << 255, 0, 0, 23, 171, 205, 0, 0 >>
            /\ out.Length = SizeofVersionNegotiationPacket + Len(out.Buffer)
            /\ ~Sent[i].AssertFailed
    /\ \A i, j \in VersionNegotiationsSent :
        SameInbound(dg[Sent[i].Datagram], dg[Sent[j].Datagram]) =>
            [Sent[i].Packet EXCEPT !.Unused = 0, !.RemoteAddress = "r1"] =
            [Sent[j].Packet EXCEPT !.Unused = 0, !.RemoteAddress = "r1"]

\* Two Version Negotiation packets were sent for the same bytes, with
\* different values of Unused, by a binding whose reserved version is not
\* the one of the random word zero.
C16_TwoResponsesDifferInUnused ==
    \E i, j \in VersionNegotiationsSent :
        /\ i # j
        /\ SameInbound(dg[Sent[i].Datagram], dg[Sent[j].Datagram])
        /\ Sent[i].Packet.Unused # Sent[j].Packet.Unused
        /\ Sent[i].Random.Byte >= 128
        /\ RandomReservedVersion # << 10, 10, 10, 10 >>

\* The destination CID of p has a length the mode of the binding forbids.
CidLengthForbidden(p) ==
    \/ Exclusive /\ Len(p.DestCID) > 0
    \/ ~Exclusive /\ Len(p.DestCID) < QUIC_MIN_INITIAL_CONNECTION_ID_LENGTH

\* C17: a datagram whose destination CID has a length the mode of the
\* binding forbids (any but zero on an exclusive binding, less than the
\* minimum on a shared one) is put on the release chain by the round that
\* receives it, which changes neither the connection chain nor the stateless
\* contexts; it is never in a chain delivered to a connection, never held by
\* a stateless context and never answered with a packet.
C17_CidLengthRejected ==
    /\ [](\A d \in DOMAIN dg :
             CidLengthForbidden(dg[d]) =>
                /\ d \notin InConnectionChains
                /\ \A c \in 1..Len(ctx) : ctx[c].Datagram # d
                /\ \A i \in 1..Len(Sent) : Sent[i].Datagram # d)
    /\ [][ ReceiveStep("t1") /\ CidLengthForbidden(ReceivedPacket("t1")) =>
                /\ ReleasedBy("t1")
                /\ local'["t1"].ConnectionChain = local["t1"].ConnectionChain
                /\ UNCHANGED << statelessVars, DeliverCalls, conn, Sent >>
         ]_vars

\* A shared binding with a listener has received a long header of an
\* unsupported version with a CID below the minimum, and has answered the
\* datagram received next to it.
C17_ShortCidOfUnknownVersionReleased ==
    \E d \in DOMAIN dg :
        /\ ~Exclusive
        /\ Listeners # << >>
        /\ dg[d] = UnknownVersionSmall
        /\ d \in SeqToSet(Chain(NextPtr, local["t1"].ReleaseChain))
        /\ Len(Sent) > 0

(***************************************************************************)
(* Properties of the creation of connections.                              *)
(***************************************************************************)

\* Retry gating neither demands a Retry nor drops packet p: memory is below
\* the limit, or p answers a Retry that was sent.
GatePassed(p) == ~RetryGatingActive \/ MintedReplay(p)

\* The head of the chain thread t delivers may create a connection.
MayCreateConnection(t) ==
    LET p == HeadPacket(t)
    IN  /\ Lookup[p.DestCID] = NULL
        /\ p.IsLongHeader
        /\ Listeners # << >>
        /\ p.Version # "VER_NEG"
        /\ p.Type = "INITIAL"
        /\ GatePassed(p)

\* C18: a step that allocates a connection or changes HandshakeConnections
\* is the delivery, after a lookup without result, of a chain whose head is
\* a long header of type Initial and of a version other than the Version
\* Negotiation marker, while a listener is registered and retry gating
\* neither demands a Retry nor drops the packet; such a delivery creates the
\* connection unless a resource fails, and every other delivery after a
\* lookup without result leaves the connections and HandshakeConnections as
\* they are.
C18_NewConnectionPrecondition ==
    [][ /\ ( \/ Len(conn') # Len(conn)
             \/ HandshakeConnections' # HandshakeConnections ) =>
                \E t \in Threads : DeliverMissStep(t) /\ MayCreateConnection(t)
        /\ \A t \in Threads : DeliverMissStep(t) =>
              IF MayCreateConnection(t)
              THEN ~FaultInjected =>
                      /\ ConnectionCreatedFor(t)
                      /\ HandshakeConnections' = HandshakeConnections + 1
              ELSE /\ NoConnectionCreated
                   /\ HandshakeConnections' = HandshakeConnections
      ]_vars

\* One call has created a connection for an Initial packet and another call
\* has refused a chain headed by a 0-RTT packet for a CID without connection.
C18_CreatedAndRefused ==
    /\ HandshakeConnections > 0
    /\ \E i \in 1..Len(DeliverCalls) :
        /\ DeliverCalls[i].Connection # NULL
        /\ dg[DeliverCalls[i].Chain[1]].Type = "INITIAL"
    /\ \E i \in 1..Len(DeliverCalls) :
        /\ DeliverCalls[i].Connection = NULL
        /\ dg[DeliverCalls[i].Chain[1]].Type = "0_RTT_PROTECTED"
        /\ Lookup[dg[DeliverCalls[i].Chain[1]].DestCID] = NULL

(***************************************************************************)
(* Properties of the list of listeners.                                    *)
(***************************************************************************)

FamilyOf(l) == l.LocalAddress.Family

\* When the listener was inserted the last time.
InsertedAt(id) ==
    CHOOSE k \in 1..Len(Registered) :
        /\ Registered[k] = id
        /\ \A j \in (k + 1)..Len(Registered) : Registered[j] # id

\* Two listeners are equal on family, wildcard flag, IP (unless the family is
\* unspecified) and ALPN.
SameListenerKey(a, b) ==
    /\ FamilyOf(a) = FamilyOf(b)
    /\ a.WildCard = b.WildCard
    /\ FamilyOf(a) # AF_UNSPEC => a.LocalAddress.Ip = b.LocalAddress.Ip
    /\ a.Alpn = b.Alpn

\* C19: the list of listeners is sorted by family in descending order
\* (AF_INET6, AF_INET, AF_UNSPEC); within a family the listeners of specific
\* addresses come before those of wildcard addresses; listeners of the same
\* family and kind are in the order of their insertion.
C19_ListenersSorted ==
    \A i, j \in 1..Len(Listeners) : i < j =>
        /\ FamilyOf(Listeners[i]) >= FamilyOf(Listeners[j])
        /\ FamilyOf(Listeners[i]) = FamilyOf(Listeners[j]) =>
              /\ Listeners[i].WildCard => Listeners[j].WildCard
              /\ Listeners[i].WildCard = Listeners[j].WildCard =>
                    InsertedAt(Listeners[i].Id) < InsertedAt(Listeners[j].Id)

\* The list holds the three listeners of the ordering scenario, which were
\* inserted in the order wildcard v4, specific v6, specific v4.
C19_OrderingScenario ==
    /\ Registered = << 1, 2, 3 >>
    /\ Len(Listeners) = 3
    /\ Listeners[1].Id = 2
    /\ Listeners[2].Id = 3
    /\ Listeners[3].Id = 1

\* The call of thread t takes the step that ends with the release of the
\* lock.
RegisterLockedStep(t) == lpc[t].pc = "idle" /\ lpc'[t].pc = "unlocked"

\* The listener the call of thread t registers.
NewListenerOf(t) == ListenerOf(lpc'[t].NewListener)

\* The list holds a listener with the key of l.
KeyInList(l) ==
    \E i \in 1..Len(Listeners) : SameListenerKey(Listeners[i], l)

\* C20: no two listeners of the list are equal on family, wildcard flag, IP
\* (unless the family is unspecified) and ALPN; a call for a listener whose
\* key is in the list leaves the list unchanged and returns FALSE, and a
\* call for a listener whose key is not in the list inserts it.
C20_NoDuplicateListeners ==
    /\ [](\A i, j \in 1..Len(Listeners) :
             SameListenerKey(Listeners[i], Listeners[j]) => i = j)
    /\ [][ \A t \in Threads : RegisterLockedStep(t) =>
              IF KeyInList(NewListenerOf(t))
              THEN /\ Listeners' = Listeners
                   /\ ~lpc'[t].AddNewListener
                   /\ ~lpc'[t].MaximizeLookup
              ELSE /\ lpc'[t].AddNewListener
                   /\ Len(Listeners') = Len(Listeners) + 1
                   /\ \E i \in 1..Len(Listeners') :
                          Listeners'[i] = NewListenerOf(t)
         ]_vars
    /\ [][ \A t \in Threads :
              /\ lpc[t].pc = "unlocked"
              /\ lpc'[t].pc = "idle"
              /\ ~lpc[t].AddNewListener
              => /\ ~lpc'[t].AddNewListener
                 /\ Listeners' = Listeners
         ]_vars

\* A call for the listener with the key of listener 3, which is in the list
\* behind a listener of the same family and kind with another IP, has
\* returned FALSE.
C20_DuplicateRefused ==
    /\ Len(Listeners) = 2
    /\ Listeners[1].Id = 6
    /\ Listeners[2].Id = 3
    /\ \E t \in Threads :
        /\ lpc[t].pc = "unlocked"
        /\ lpc[t].NewListener = 4
        /\ ~lpc[t].AddNewListener

(***************************************************************************)
(* Properties of the search of a listener.                                 *)
(***************************************************************************)

\* A call of QuicBindingGetListener returns, and what it was called with and
\* has returned.
GetListenerStep == Len(Matches') = Len(Matches) + 1

LastMatch == Matches'[Len(Matches')]

\* Listener l serves the ALPN for the local address of Info.
ListenerServes(l, Info, alpn) ==
    /\ l.Alpn = alpn
    /\ \/ FamilyOf(l) = AF_UNSPEC
       \/ /\ FamilyOf(l) = Info.LocalAddress.Family
          /\ l.WildCard \/ l.LocalAddress.Ip = Info.LocalAddress.Ip

\* The positions in the list of the listeners that serve the k-th ALPN of
\* the client.
Serving(Info, k) ==
    { i \in 1..Len(Listeners) : ListenerServes(Listeners[i], Info, Info.Alpns[k]) }

\* The first ALPN of the client that a listener serves is its k-th, and the
\* first listener that serves it is at position i.
FirstServing(Info, k, i) ==
    /\ k \in 1..Len(Info.Alpns)
    /\ i \in Serving(Info, k)
    /\ \A j \in Serving(Info, k) : i <= j
    /\ \A h \in 1..(k - 1) : Serving(Info, h) = { }

\* C21: the listener QuicBindingGetListener returns has an ALPN of the
\* client's list and either the unspecified family or the family of the
\* packet's local address and, unless it is a wildcard, its IP; it is the
\* first of the list among those that serve the first ALPN of the client
\* that any listener serves, and the call has taken one reference on its
\* rundown and none on another.
C21_ListenerMatchRule ==
    [][ GetListenerStep =>
          IF LastMatch.Listener = NULL THEN Rundown' = Rundown
          ELSE \E k \in 1..Len(LastMatch.Info.Alpns) :
               \E i \in 1..Len(Listeners) :
                  /\ Listeners[i].Id = LastMatch.Listener
                  /\ FirstServing(LastMatch.Info, k, i)
                  /\ Rundown' = [Rundown EXCEPT ![LastMatch.Listener].Refs = @ + 1]
      ]_vars

\* A call for a client that offers h2 before h3 has returned the wildcard
\* listener of h3, which is behind a listener of h3 with another IP, and
\* holds a reference on its rundown.
C21_SecondAlpnWildcard ==
    \E m \in 1..Len(Matches) :
        /\ Matches[m].Info.Alpns = << AlpnH2, AlpnH3 >>
        /\ Matches[m].Info.LocalAddress.Ip = "10.0.0.2"
        /\ Matches[m].Listener = 1
        /\ Rundown[1].Refs = 1
        /\ Len(Listeners) = 2
        /\ Listeners[1].Id = 3

\* C22 (as corrected): QuicBindingGetListener returns a listener exactly
\* when the rundown of the first listener that serves the first served ALPN
\* of the client can be acquired; when it cannot, the call returns none,
\* whether or not a listener behind it serves the client.
C22_TornDownCandidateEndsSearch ==
    [][ GetListenerStep =>
          ( LastMatch.Listener # NULL <=>
              \E k \in 1..Len(LastMatch.Info.Alpns) :
              \E i \in 1..Len(Listeners) :
                  /\ FirstServing(LastMatch.Info, k, i)
                  /\ Rundown[Listeners[i].Id].Active )
      ]_vars

\* A call has returned none although a listener whose rundown is active
\* serves an ALPN of the client at the local address.
C22_LiveListenerNotReturned ==
    \E m \in 1..Len(Matches) :
        /\ Matches[m].Listener = NULL
        /\ \E k \in 1..Len(Matches[m].Info.Alpns) : \E i \in Serving(Matches[m].Info, k) :
               Rundown[Listeners[i].Id].Active

\* C22 (as stated): QuicBindingGetListener returns none only when no
\* listener with an active rundown serves an ALPN of the client.
C22_SkipsTornDownListeners ==
    [][ GetListenerStep =>
          ( LastMatch.Listener = NULL <=>
              \A k \in 1..Len(LastMatch.Info.Alpns) :
              \A i \in Serving(LastMatch.Info, k) :
                  ~Rundown[Listeners[i].Id].Active )
      ]_vars

(***************************************************************************)
(* Properties of the registration of the first listener.                   *)
(***************************************************************************)

\* The call of thread t takes the step from the release of the lock to its
\* return.
RegisterReturnStep(t) == lpc[t].pc = "unlocked" /\ lpc'[t].pc = "idle"

\* The listener with the given Id is linked in the list.
ListedIn(list, id) == \E i \in 1..Len(list) : list[i].Id = id

\* C23: QuicLookupMaximizePartitioning is called exactly by the calls that
\* have inserted their listener into an empty list, and after the lock is
\* released; a call that made it and returns FALSE has taken its listener
\* out of the list, a call that made it and returns TRUE has left the list
\* alone, and a call that did not make it leaves the list alone and returns
\* TRUE exactly when it has inserted its listener, which is then in the
\* list.
C23_MaximizeForFirstListener ==
    [][ \A t \in Threads :
          /\ RegisterLockedStep(t) =>
                lpc'[t].MaximizeLookup
                  = (Listeners = << >> /\ Listeners' = << NewListenerOf(t) >>)
          /\ RegisterReturnStep(t) =>
                LET id == lpc[t].NewListener
                IN  /\ lpc'[t].AddNewListener => lpc[t].AddNewListener
                    /\ lpc'[t].AddNewListener =>
                          /\ Listeners' = Listeners
                          /\ ListedIn(Listeners', id)
                    /\ lpc[t].AddNewListener /\ ~lpc'[t].AddNewListener =>
                          /\ lpc[t].MaximizeLookup
                          /\ ~ListedIn(Listeners', id)
                          /\ Listeners' = ListenerRemove(Listeners, id)
                    /\ ~lpc[t].MaximizeLookup =>
                          /\ Listeners' = Listeners
                          /\ lpc'[t].AddNewListener = lpc[t].AddNewListener
      ]_vars

\* Two calls are between the release of the lock and their return: one has
\* inserted listener 1 into the empty list and is to maximize the
\* partitioning, the other has inserted listener 2 behind it and is not.
C23_FirstAndSecondRegistration ==
    /\ lpc["t1"].pc = "unlocked"
    /\ lpc["t1"].NewListener = 1
    /\ lpc["t1"].MaximizeLookup
    /\ lpc["t2"].pc = "unlocked"
    /\ lpc["t2"].NewListener = 2
    /\ lpc["t2"].AddNewListener
    /\ ~lpc["t2"].MaximizeLookup
    /\ Len(Listeners) = 2

(***************************************************************************)
(* Properties of the failures of the hash and of the encryption.           *)
(***************************************************************************)

\* The datagram was sent although the hash of its reset token or the
\* encryption of its retry token had failed.
SentAfterCryptoFailure(packet) ==
    \/ packet.Type = "STATELESS_RESET" /\ ~packet.ResetToken.Written
    \/ packet.Type = "RETRY" /\ packet.Token.Key # "StatelessRetryKey"

\* C24: no datagram is sent for an operation whose reset token hash or
\* retry token encryption fails, and the send context of an operation that
\* is to be processed is freed once when that happens.
C24_CryptoFailureAbandonsResponse ==
    /\ \A i \in 1..Len(Sent) : ~SentAfterCryptoFailure(Sent[i].Packet)
    /\ \A c \in 1..Len(ctx) :
          ctx[c].OperType # "NONE" /\ ctx[c].RelPc = "pending" =>
             \A fault \in CryptoFaults(ctx[c].OperType) :
             \A random \in RandomDraws(ctx[c].OperType, RandomBytes) :
                LET res == QuicBindingProcessStatelessOperation(
                               ctx[c].OperType, dg[ctx[c].Datagram],
                               RandomReservedVersion, fault, random)
                IN  res.Send = << >> /\ res.SendContextFreed = 1

(***************************************************************************)
(* Concurrent creates with a limit of three tracked operations.            *)
(***************************************************************************)

InitOrdered == InitStatelessOf(StatelessOperationsLimitOrdered)

SpecOrdered == InitOrdered /\ [][NextStateless]_vars

(***************************************************************************)
(* Properties of the ageing under concurrent creates.                      *)
(***************************************************************************)

\* The time that has passed since the creation time of context c.
AgeNow(c) == QuicTimeDiff32(ctx[c].CreationTimeMs, clock)

\* Context c is younger than the expiration time now.
YoungNow(c) == TimeLess32(AgeNow(c), QUIC_STATELESS_OPERATION_EXPIRATION_MS)

\* The time T1 is not after the time T2 (they are less than 2^31 ms apart).
TimeNotAfter(T1, T2) == QuicTimeDiff32(T1, T2).hi < HalfWord \div 2

\* C27: a context is marked expired and taken out of table and list only
\* when QUIC_STATELESS_OPERATION_EXPIRATION_MS have passed since its
\* creation time, whichever thread's create ages it out.
C27_AgeingRemovesOnlyExpired ==
    [][ \A c \in 1..Len(ctx) :
          ~ctx[c].IsExpired /\ ctx'[c].IsExpired => ~YoungNow(c) ]_vars

\* C28: the creation times of the contexts in the list do not decrease from
\* head to tail, and no context that has reached the expiration time is
\* behind a head that has not.
C28_ListOrderedByCreationTime ==
    /\ \A i, j \in 1..Len(StatelessOperList) :
          i < j => TimeNotAfter(ctx[StatelessOperList[i]].CreationTimeMs,
                                ctx[StatelessOperList[j]].CreationTimeMs)
    /\ StatelessOperList # << >> /\ YoungNow(Head(StatelessOperList)) =>
          \A c \in SeqToSet(StatelessOperList) : YoungNow(c)

(***************************************************************************)
(* Concurrent creates, the release of a context in its two parts, before   *)
(* and after the release of the lock, and QuicBindingUninitialize.         *)
(***************************************************************************)

\* QuicBindingReleaseStatelessOperation on context c up to the release of
\* the lock.
StatelessReleaseLocked(c) ==
    /\ c \in 1..Len(ctx)
    /\ ctx[c].RelPc = "pending"
    /\ ctx' = ReleaseStatelessLocked(ctx, c)
    /\ UNCHANGED << clock, ticks, StatelessOperList, StatelessOperTable,
                    StatelessOperCount, spc, sTimeMs, receiveVars, workerVars,
                    listenerVars, matchVars, buildVars >>

\* What the read of HasBindingRef can give: the field, or any value when the
\* memory of the context was freed.
HasBindingRefRead(c) ==
    IF ctx[c].FreeCount > 0 THEN BOOLEAN ELSE { ctx[c].HasBindingRef }

\* The rest of QuicBindingReleaseStatelessOperation on context c.
StatelessReleaseUnlocked(c) ==
    /\ c \in 1..Len(ctx)
    /\ ctx[c].RelPc = "unlocked"
    /\ \E read \in HasBindingRefRead(c) :
           ctx' = ReleaseStatelessAfterLock(ctx, c, "worker", read)
    /\ UNCHANGED << clock, ticks, StatelessOperList, StatelessOperTable,
                    StatelessOperCount, spc, sTimeMs, receiveVars, workerVars,
                    listenerVars, matchVars, buildVars >>

\* The loop of QuicBindingUninitialize over the contexts left in the list.
RECURSIVE UninitializeStatelessOperations(_)
UninitializeStatelessOperations(st) ==
    IF st.list = << >> THEN st
    ELSE LET c == Head(st.list)
             h == QuicAddrHash(st.ctx[c].RemoteAddress)
         IN  UninitializeStatelessOperations(
                 [ ctx   |-> PoolFree(st.ctx, c),
                   list  |-> Tail(st.list),
                   table |-> [st.table EXCEPT ![h] = RemoveFromSeq(@, c)],
                   count |-> st.count - 1 ])

\* QuicBindingUninitialize.  It runs when the last reference on the binding
\* is gone: no receive call and no release call is under way, and, as it
\* asserts, the contexts left in the list are processed.
QuicBindingUninitialize ==
    /\ ~Uninitialized
    /\ \A t \in Threads : spc[t] = "idle"
    /\ \A c \in 1..Len(ctx) : ctx[c].RelPc # "unlocked"
    /\ \A c \in SeqToSet(StatelessOperList) : ctx[c].IsProcessed
    /\ LET st == UninitializeStatelessOperations(Tracking)
       IN  /\ ctx' = st.ctx
           /\ StatelessOperList' = st.list
           /\ StatelessOperTable' = st.table
           /\ StatelessOperCount' = st.count
    /\ Uninitialized' = TRUE
    /\ UNCHANGED << clock, ticks, spc, sTimeMs, receiveVars, workerVars,
                    listenerVars, matchVars, MaxOperations, FaultLimit,
                    lockVars >>

\* How many calls of create one behaviour holds here.
MaxCreates == 2

\* The calls of create made so far: each has left a context or is under way.
CreatesBegun == Len(ctx) + Cardinality({ t \in Threads : spc[t] = "create" })

NextRelease ==
    \/ ~Uninitialized /\ Tick
    \/ \E t \in Threads :
           /\ ~Uninitialized
           /\ CreatesBegun < MaxCreates
           /\ QueueStatelessOperationBegin(t)
    \/ \E t \in Threads : ~Uninitialized /\ QueueStatelessOperationCreate(t)
    \/ \E c \in 1..MaxCtx : ~Uninitialized /\ StatelessReleaseLocked(c)
    \/ \E c \in 1..MaxCtx : ~Uninitialized /\ StatelessReleaseUnlocked(c)
    \/ QuicBindingUninitialize

SpecRelease == InitStateless /\ [][NextRelease]_vars

(***************************************************************************)
(* Properties of the freeing of stateless contexts.                        *)
(***************************************************************************)

\* Context c is freed in this step.
FreedNow(c) == ctx'[c].FreeCount = ctx[c].FreeCount + 1

\* The release call on context c takes its first or its second step.
ReleaseLockedStep(c) == ctx[c].RelPc = "pending" /\ ctx'[c].RelPc = "unlocked"

ReleaseUnlockedStep(c) == ctx[c].RelPc = "unlocked" /\ ctx'[c].RelPc = "done"

\* QuicBindingUninitialize runs in this step.
UninitializeStep == ~Uninitialized /\ Uninitialized'

\* A create ages context c out in this step.
AgedOutNow(c) ==
    /\ \E t \in Threads : CreateStep(t)
    /\ c \in SeqToSet(StatelessOperList)
    /\ c \notin SeqToSet(StatelessOperList')

C30_NoUseAfterFree ==
    \A c \in 1..Len(ctx) : ~ctx[c].UseAfterFree

(***************************************************************************)
(* One receive call on a shared binding with a listener, in which one      *)
(* fault more can be injected, so that one call can fail twice.            *)
(***************************************************************************)

InitUnwind ==
    /\ InitBindingOf({"t1"}, MaxFaults + 1)
    /\ Exclusive = FALSE
    /\ Listeners = OneListener
    /\ RandomReservedVersion = ReservedVersionOf(<< 0, 0, 0, 0 >>)
    /\ conn = ExistingConnections(FALSE, 0)
    /\ Lookup = LookupOf(conn)
    /\ CurrentHandshakeMemoryUsage =
           CurrentMemoryLimit - QUIC_CONN_HANDSHAKE_MEMORY_USAGE

SpecUnwind == InitUnwind /\ [][Next]_vars

(***************************************************************************)
(* Properties of the reference on the binding in the receive call.         *)
(***************************************************************************)

\* The contexts that this step created and released again: the unwind of
\* QuicBindingQueueStatelessOperation after QuicOperationAlloc failed.
UnwoundNow ==
    { c \in (Len(ctx) + 1)..Len(ctx') : ctx'[c].RelPc = "done" }

\* A step in which QuicBindingCreateConnection made a connection and did not
\* bring it into the lookup.
CreateConnectionFailed ==
    /\ ConnectionMade
    /\ Lookup'[conn'[Len(conn')].CID] # Len(conn')

MaxLockCalls == 3

Acquire(lock, mode) ==
    [ op |-> "acquire", lock |-> lock, mode |-> mode, call |-> "none" ]

Release(lock) ==
    [ op |-> "release", lock |-> lock, mode |-> "none", call |-> "none" ]

Datapath(call) ==
    [ op |-> "datapath", lock |-> "none", mode |-> "none", call |-> call ]

\* A call into the lookup, which takes and releases the lookup's own lock.
QuicLookupCall(mode) == << Acquire("Lookup", mode), Release("Lookup") >>

UnregisterListenerEvents ==
    << Acquire("RwLock", "exclusive"), Release("RwLock") >>

\* QuicBindingRegisterListener: the list is changed under the lock; for the
\* first listener QuicLookupMaximizePartitioning follows, and
\* QuicBindingUnregisterListener when that fails.
RegisterListenerEvents ==
    LET locked == << Acquire("RwLock", "exclusive"), Release("RwLock") >>
    IN  { locked,
          locked \o QuicLookupCall("exclusive"),
          locked \o QuicLookupCall("exclusive") \o UnregisterListenerEvents }

GetListenerEvents == << Acquire("RwLock", "shared"), Release("RwLock") >>

CreateStatelessOperationEvents ==
    << Acquire("StatelessOperLock", "exclusive"), Release("StatelessOperLock") >>

\* A mutation of ReleaseStatelessOperationEvents: the datagram is returned
\* under the lock.
ReleaseReturningUnderLock(ReturnDatagram) ==
    << Acquire("StatelessOperLock", "exclusive") >>
    \o (IF ReturnDatagram
        THEN << Datapath("QuicDataPathBindingReturnRecvDatagrams") >>
        ELSE << >>)
    \o << Release("StatelessOperLock") >>

ReleaseStatelessOperationEvents(ReturnDatagram) ==
    (IF ReturnDatagram
     THEN << Datapath("QuicDataPathBindingReturnRecvDatagrams") >>
     ELSE << >>)
    \o << Acquire("StatelessOperLock", "exclusive"),
          Release("StatelessOperLock") >>

GenerateStatelessResetTokenEvents ==
    << Acquire("ResetTokenLock", "exclusive"), Release("ResetTokenLock") >>

SendFromToEvents == << Datapath("QuicDataPathBindingSendFromTo") >>

\* QuicBindingProcessStatelessOperation: the send context is not allocated;
\* or the send datagram is not allocated, which for a retry frees the send
\* context twice; or the packet, for a reset with its token, is sent.
ProcessStatelessOperationEvents ==
    LET context  == << Datapath("QuicDataPathBindingAllocSendContext") >>
        datagram == << Datapath("QuicDataPathBindingAllocSendDatagram") >>
        free     == << Datapath("QuicDataPathBindingFreeSendContext") >>
    IN  { context,
          context \o datagram \o free,
          context \o datagram \o free \o free,
          context \o datagram \o SendFromToEvents,
          context \o datagram \o GenerateStatelessResetTokenEvents
              \o SendFromToEvents }

\* The worker processes a stateless operation and releases its context.
StatelessOperationEvents ==
    { p \o ReleaseStatelessOperationEvents(TRUE) :
        p \in ProcessStatelessOperationEvents }

\* QuicBindingQueueStatelessOperation: nothing when there is no worker or it
\* is overloaded; else the create, and the release when QuicOperationAlloc
\* failed.
QueueStatelessOperationEvents ==
    { << >>,
      CreateStatelessOperationEvents,
      CreateStatelessOperationEvents \o ReleaseStatelessOperationEvents(FALSE) }

\* QuicBindingDeliverPackets: QuicLookupFindConnection, and on a miss a
\* stateless operation or QuicBindingCreateConnection with its
\* QuicLookupAddSourceConnectionID.
DeliverPacketsEvents ==
    { QuicLookupCall("shared") \o q : q \in QueueStatelessOperationEvents }
    \cup { QuicLookupCall("shared") \o QuicLookupCall("exclusive") }

\* QuicBindingReceive for one chain, which returns what it did not hand on.
ReceiveEvents ==
    { p \o r :
        p \in QueueStatelessOperationEvents \cup DeliverPacketsEvents,
        r \in { << >>, << Datapath("QuicDataPathBindingReturnRecvDatagrams") >> } }

UninitializeEvents == << Datapath("QuicDataPathBindingDelete") >>

\* The calls that threads make in parallel.
LockPrograms ==
    ( RegisterListenerEvents
      \cup { UnregisterListenerEvents, GetListenerEvents,
             GenerateStatelessResetTokenEvents }
      \cup StatelessOperationEvents
      \cup ReceiveEvents ) \ { << >> }

\* The locks that thread t holds.
HeldBy(t) == { held[t][i].lock : i \in 1..Len(held[t]) }

\* QuicDispatchLockAcquire, QuicDispatchRwLockAcquireExclusive and
\* QuicDispatchRwLockAcquireShared return when the lock is free, or, for a
\* shared acquisition, held shared only.
CanAcquire(lock, mode) ==
    \A u \in Threads :
        \A i \in 1..Len(held[u]) :
            held[u][i].lock = lock =>
                mode = "shared" /\ held[u][i].mode = "shared"

CanStep(t) ==
    /\ lockProg[t] # << >>
    /\ Head(lockProg[t]).op = "acquire" =>
           CanAcquire(Head(lockProg[t]).lock, Head(lockProg[t]).mode)

RECURSIVE DropLock(_, _)
DropLock(hs, lock) ==
    IF hs = << >> THEN << >>
    ELSE IF Head(hs).lock = lock THEN Tail(hs)
    ELSE << Head(hs) >> \o DropLock(Tail(hs), lock)

\* A thread begins a call.
LockCallBegin(t) ==
    /\ ~Uninitialized
    /\ lockProg[t] = << >>
    /\ lockCalls < MaxLockCalls
    /\ \E prog \in LockPrograms : lockProg' = [lockProg EXCEPT ![t] = prog]
    /\ lockCalls' = lockCalls + 1
    /\ UNCHANGED << statelessVars, receiveVars, workerVars, listenerVars,
                    matchVars, MaxOperations, FaultLimit, Uninitialized, held >>

\* A thread makes the next event of its call.
LockStep(t) ==
    /\ CanStep(t)
    /\ LET e == Head(lockProg[t])
       IN  held' = [held EXCEPT ![t] =
                      IF e.op = "acquire"
                      THEN Append(@, [ lock |-> e.lock, mode |-> e.mode ])
                      ELSE IF e.op = "release" THEN DropLock(@, e.lock)
                      ELSE @]
    /\ lockProg' = [lockProg EXCEPT ![t] = Tail(@)]
    /\ UNCHANGED << statelessVars, receiveVars, workerVars, listenerVars,
                    matchVars, MaxOperations, FaultLimit, Uninitialized,
                    lockCalls >>

\* QuicBindingUninitialize begins when no other call is under way, and no
\* call begins after it.
LockUninitialize(t) ==
    /\ ~Uninitialized
    /\ \A u \in Threads : lockProg[u] = << >>
    /\ lockProg' = [lockProg EXCEPT ![t] = UninitializeEvents]
    /\ Uninitialized' = TRUE
    /\ UNCHANGED << statelessVars, receiveVars, workerVars, listenerVars,
                    matchVars, MaxOperations, FaultLimit, held, lockCalls >>

NextLocks ==
    \E t \in Threads :
        \/ LockCallBegin(t)
        \/ LockStep(t)
        \/ LockUninitialize(t)

SpecLocks == InitStateless /\ [][NextLocks]_vars

\* The place of a lock in the order RwLock, lock of the lookup,
\* StatelessOperLock, ResetTokenLock.
LockRank(lock) ==
    CASE lock = "RwLock"            -> 1
      [] lock = "Lookup"            -> 2
      [] lock = "StatelessOperLock" -> 3
      [] lock = "ResetTokenLock"    -> 4

\* Thread t makes the next event of its call in this step.
LockStepOf(t) ==
    /\ lockProg[t] # << >>
    /\ lockProg'[t] = Tail(lockProg[t])

\* C26: a thread acquires a lock only while it holds none that is the same
\* or later in the order RwLock, lock of the lookup, StatelessOperLock,
\* ResetTokenLock; whenever a call is under way, some thread can make its
\* next event, so no deadlock is reached; and a thread that calls into the
\* datapath holds none of RwLock, StatelessOperLock and ResetTokenLock.
C26_LockDiscipline ==
    /\ [] ( (\E t \in Threads : lockProg[t] # << >>) =>
                \E t \in Threads : CanStep(t) )
    /\ [][ \A t \in Threads :
             LockStepOf(t) =>
               LET e == Head(lockProg[t])
               IN  /\ e.op = "acquire" =>
                         \A l \in HeldBy(t) : LockRank(l) < LockRank(e.lock)
                   /\ e.op = "datapath" =>
                         HeldBy(t) \cap { "RwLock", "StatelessOperLock",
                                          "ResetTokenLock" } = { }
         ]_vars

\* One thread holds StatelessOperLock and the other waits for it, with a
\* call into the datapath to make after it.
C26_ContendedStatelessLock ==
    \E t, u \in Threads :
        /\ "StatelessOperLock" \in HeldBy(t)
        /\ lockProg[u] # << >>
        /\ Head(lockProg[u]) = Acquire("StatelessOperLock", "exclusive")
        /\ ~CanStep(u)
        /\ \E i \in 1..Len(lockProg[u]) : lockProg[u][i].op = "datapath"

(***************************************************************************)
(* Properties of the structures that track the stateless operations.       *)
(***************************************************************************)

RECURSIVE SumOfLengths(_, _)
SumOfLengths(table, buckets) ==
    IF buckets = { } THEN 0
    ELSE LET h == CHOOSE b \in buckets : TRUE
         IN  Len(table[h]) + SumOfLengths(table, buckets \ { h })

\* QuicHashtableGetTotalEntryCount of the table of stateless operations.
TotalEntryCount == SumOfLengths(StatelessOperTable, HashBuckets)

\* C31: between the locked regions StatelessOperCount is the number of
\* contexts in the list and the number of entries of the table, list and
\* table hold the same contexts, each once, and none of them is expired;
\* after QuicBindingUninitialize the count is 0 and the table is empty.
C31_TrackingConsistent ==
    /\ StatelessOperCount = Len(StatelessOperList)
    /\ StatelessOperCount = TotalEntryCount
    /\ Cardinality(SeqToSet(StatelessOperList)) = Len(StatelessOperList)
    /\ SeqToSet(StatelessOperList) = TableEntries(StatelessOperTable)
    /\ \A c \in SeqToSet(StatelessOperList) :
          /\ ~ctx[c].IsExpired
          /\ ctx[c].FreeCount = 0
    /\ Uninitialized =>
          /\ StatelessOperCount = 0
          /\ TotalEntryCount = 0
          /\ StatelessOperList = << >>

\* QuicBindingUninitialize has run on a binding that no time had passed
\* for, so that it found both contexts in list and table and freed them.
C31_TeardownOfTwoTracked ==
    /\ Uninitialized
    /\ ticks = 0
    /\ Len(ctx) = 2
    /\ \A c \in 1..2 : ctx[c].FreeCount = 1 /\ ~ctx[c].FreeCtx
    /\ StatelessOperCount = 0

(***************************************************************************)
(* Properties of the send context of a stateless operation.                *)
(***************************************************************************)

\* C33: the send context that QuicBindingProcessStatelessOperation allocated
\* is handed to QuicBindingSendFromTo once or freed once, and not both; when
\* none was allocated, none is sent or freed.
C33_SendContextDisposedOnce ==
    \A i \in 1..Len(SendContexts) :
        IF SendContexts[i].Allocated
        THEN SendContexts[i].Sent + SendContexts[i].Freed = 1
        ELSE SendContexts[i].Sent = 0 /\ SendContexts[i].Freed = 0

(***************************************************************************)
(* Properties of the partitioning of the lookup under registrations in     *)
(* parallel.                                                               *)
(***************************************************************************)

\* The listeners in the list whose call of QuicBindingRegisterListener has
\* returned, which it did with TRUE.
RegisteredListeners ==
    { Listeners[i].Id : i \in 1..Len(Listeners) } \ { id \in 1..MaxListenerId : Registering(id) }

\* C34: while a listener whose registration returned TRUE is in the list,
\* QuicLookupMaximizePartitioning has succeeded on this binding.
C34_PartitioningFollowsListeners ==
    RegisteredListeners # { } => MaximizePartitioning

(***************************************************************************)
(* Properties of two receive calls that create a connection for one CID.   *)
(***************************************************************************)

SilentShutdown(oper) ==
    /\ oper.Type = "API_CALL"
    /\ oper.ApiType = "CONN_SHUTDOWN"
    /\ oper.Flags = "SILENT"

\* A step in which QuicLookupAddSourceConnectionID of a new connection, which
\* holds its reference on the binding, found the CID taken.
InsertionLost == CollisionStep /\ conn'[Len(conn')].Binding

\* C35: of two receive calls that each try to create a connection for one
\* CID, one gets its connection into the lookup.  The other call finds the
\* CID taken: the lookup stays as it is, its chain is queued on the
\* connection that holds the CID and the delivery succeeds, and its own
\* connection has no receive queued and one operation, a silent shutdown.
\* At no time does a connection that is not in the lookup hold a receive,
\* and no two connections of one CID were handed to a worker.
C35_OneConnectionPerCid ==
    /\ [] ( /\ \A i \in 1..Len(conn) :
                   conn[i].RecvQueue # << >> => Lookup[conn[i].CID] = i
            /\ \A i, j \in 1..Len(conn) :
                   /\ conn[i].CID = conn[j].CID
                   /\ conn[i].WorkerQueued
                   /\ conn[j].WorkerQueued
                   => i = j )
    /\ [][ InsertionLost =>
              LET new      == Len(conn')
                  existing == Lookup[conn'[new].CID]
                  call     == DeliverCalls'[Len(DeliverCalls')]
              IN  /\ Lookup' = Lookup
                  /\ Len(DeliverCalls') = Len(DeliverCalls) + 1
                  /\ call.ok /\ call.Connection = existing
                  /\ conn'[existing].RecvQueue =
                         Append(conn[existing].RecvQueue,
                                [ Chain |-> call.Chain[1],
                                  Length |-> call.Length ])
                  /\ conn'[new].RecvQueue = << >>
                  /\ ~conn'[new].WorkerQueued
                  /\ Len(conn'[new].OperQueue) = 1
                  /\ SilentShutdown(conn'[new].OperQueue[1])
          ]_vars

\* Both calls are over: the connection of one is in the lookup and holds the
\* chains of both, the connection of the other holds a shutdown only.
C35_BothChainsOnOneConnection ==
    /\ \A t \in Threads : rpc[t] = "done"
    /\ Len(conn) = 2
    /\ conn[1].CID = conn[2].CID
    /\ Lookup[conn[1].CID] = 1
    /\ Len(conn[1].RecvQueue) = 2
    /\ conn[2].RecvQueue = << >>
    /\ Len(conn[2].OperQueue) = 1

(***************************************************************************)
(* Properties of the references on connections that a delivery takes.      *)
(***************************************************************************)

\* C36: when QuicBindingDeliverPackets has returned, no connection holds a
\* reference of the lookup: the one that QuicLookupFindConnection or
\* QuicLookupAddSourceConnectionID returned, or that was added to the new
\* connection, has been released once.  A new connection has lost its
\* handle owner reference exactly if QuicBindingCreateConnection failed
\* before it took the reference on the binding.
C36_LookupReferencesBalanced ==
    \A i \in 1..Len(conn) :
        /\ conn[i].LookupResultRefs = 0
        /\ conn[i].HandleOwnerRefs = IF conn[i].Binding THEN 1 ELSE 0
        /\ conn[i].WorkerQueued => conn[i].Binding

\* A delivery has created a connection that lost the insertion of its CID:
\* it has queued its chain on the connection that holds the CID and has
\* released the reference on that one and the reference on its own, which
\* keeps its handle owner reference.
C36_ReferencesAfterCollision ==
    \E i, j \in 1..Len(conn) :
        /\ i # j
        /\ conn[i].CID = conn[j].CID
        /\ Lookup[conn[i].CID] = i
        /\ Len(conn[i].RecvQueue) = 2
        /\ conn[i].LookupResultRefs = 0
        /\ conn[j].Binding
        /\ ~conn[j].SourceCIDs
        /\ conn[j].LookupResultRefs = 0
        /\ conn[j].HandleOwnerRefs = 1

====
